---- MODULE Spec2Model ----
(***************************************************************************)
(* Model of commit-message-validator: the rule engine that classifies the  *)
(* lines of a commit message (subject / body / trailer), applies the line  *)
(* rules and the commit rules of a validator profile, and sorts and        *)
(* reports the failures.                                                   *)
(*                                                                         *)
(* A line is a sequence of one-character strings, so that the regular      *)
(* expressions of the source are modelled by what they match.              *)
(***************************************************************************)
EXTENDS Integers, Sequences, FiniteSets, TLC

(***************************************************************************)
(* Characters and character classes.                                       *)
(***************************************************************************)
UpperChars == <<"A", "B", "C", "D", "E", "F", "G", "H", "I", "J", "K", "L", "M",
                "N", "O", "P", "Q", "R", "S", "T", "U", "V", "W", "X", "Y", "Z">>

LowerChars == <<"a", "b", "c", "d", "e", "f", "g", "h", "i", "j", "k", "l", "m",
                "n", "o", "p", "q", "r", "s", "t", "u", "v", "w", "x", "y", "z">>

Digits == {"0", "1", "2", "3", "4", "5", "6", "7", "8", "9"}

\* the lowercase letter of every uppercase letter
ToLower == [c \in {UpperChars[k] : k \in 1..26} |-> LowerChars[CHOOSE k \in 1..26 : UpperChars[k] = c]]

\* str.lower() on one character
LowerChar(c) == IF c \in DOMAIN ToLower THEN ToLower[c] ELSE c

\* str.lower()
Lower(s) == [k \in 1..Len(s) |-> LowerChar(s[k])]

\* [a-z] under re.IGNORECASE
IsAlpha(c) == LowerChar(c) \in {LowerChars[k] : k \in 1..26}

\* \d
IsDigit(c) == c \in Digits

\* \s and \S
IsSpace(c) == c \in {" ", "\t"}

\* [0-9a-fA-F]
IsHex(c) == IsDigit(c) \/ LowerChar(c) \in {"a", "b", "c", "d", "e", "f"}

\* [a-f0-9]
IsLowerHex(c) == IsDigit(c) \/ c \in {"a", "b", "c", "d", "e", "f"}

\* s[from..] starts with the literal p
StartsWithAt(s, from, p) ==
    /\ from + Len(p) - 1 <= Len(s)
    /\ \A k \in 1..Len(p) : s[from + k - 1] = p[k]

StartsWith(s, p) == StartsWithAt(s, 1, p)

\* c repeated n times
Rep(c, n) == [k \in 1..n |-> c]

(***************************************************************************)
(* Program constants.                                                      *)
(***************************************************************************)
SubjectMaxLength_max_len == 80

BodyMaxLength_max_len == 100

CommitMinLines_min == 3

ShaLen == 40

ChangeIdLen == 40

\* RE_CHERRYPICK = ^\(cherry picked from commit [0-9a-fA-F]{40}\)$
CherryPrefix ==
    <<"(", "c", "h", "e", "r", "r", "y", " ", "p", "i", "c", "k", "e", "d", " ",
      "f", "r", "o", "m", " ", "c", "o", "m", "m", "i", "t", " ">>

RE_CHERRYPICK(line) ==
    /\ Len(line) = Len(CherryPrefix) + ShaLen + 1
    /\ StartsWith(line, CherryPrefix)
    /\ \A k \in 1..ShaLen : IsHex(line[Len(CherryPrefix) + k])
    /\ line[Len(line)] = ")"

\* RE_TRAILER = ^(?P<name>[a-z]\S+):(?P<ws>\s*)(?P<value>.*)$  IGNORECASE
\* The name is a letter followed by one or more non-blank characters; \S+
\* is greedy, so the name ends before the last colon of the first run of
\* non-blank characters.
\* the positions k at which the name may end: line[1..k] is the name
\* the length of the run of non-blank characters the line starts with
FirstRun(line) ==
    IF \A j \in 1..Len(line) : ~IsSpace(line[j]) THEN Len(line)
    ELSE (CHOOSE j \in 1..Len(line) : IsSpace(line[j]) /\ \A i \in 1..(j - 1) : ~IsSpace(line[i])) - 1

TrailerNameEnds(line) ==
    IF Len(line) >= 1 /\ IsAlpha(line[1])
    THEN {k \in 2..(FirstRun(line) - 1) : line[k + 1] = ":"}
    ELSE {}

RE_TRAILER(line) == TrailerNameEnds(line) # {}

TrailerNameEnd(line) ==
    CHOOSE k \in TrailerNameEnds(line) : \A j \in TrailerNameEnds(line) : j <= k

\* m.group("name")
TrailerName(line) == SubSeq(line, 1, TrailerNameEnd(line))

\* the first position after the greedy \s*
TrailerValueStart(line) ==
    LET from == TrailerNameEnd(line) + 2
    IN  CHOOSE p \in from..(Len(line) + 1) :
            /\ \A j \in from..(p - 1) : IsSpace(line[j])
            /\ p <= Len(line) => ~IsSpace(line[p])

\* m.group("ws")
TrailerWs(line) == SubSeq(line, TrailerNameEnd(line) + 2, TrailerValueStart(line) - 1)

\* m.group("value")
TrailerValue(line) == SubSeq(line, TrailerValueStart(line), Len(line))

(***************************************************************************)
(* The regular expressions of the rules.                                   *)
(***************************************************************************)
\* SubjectMaxLength.RE_REVERT = ^Revert ".*"$
RE_REVERT(line) ==
    LET prefix == <<"R", "e", "v", "e", "r", "t", " ", "\"">>
    IN  /\ Len(line) >= Len(prefix) + 1
        /\ StartsWith(line, prefix)
        /\ line[Len(line)] = "\""

\* SubjectNoBugOrTask.regex = ^(bug|T?\d+)  IGNORECASE
RE_SUBJECT_BUG_OR_TASK(line) ==
    \/ StartsWith(Lower(line), <<"b", "u", "g">>)
    \/ Len(line) >= 1 /\ IsDigit(line[1])
    \/ Len(line) >= 2 /\ LowerChar(line[1]) = "t" /\ IsDigit(line[2])

\* BodyMaxLength.RE_URL = ^<?https?://\S+>?$  IGNORECASE
RE_URL(line) ==
    LET l == Lower(line)
        a == IF StartsWith(l, <<"<">>) THEN 2 ELSE 1
        b == a + 4
        c == IF StartsWithAt(l, b, <<"s">>) THEN b + 1 ELSE b
    IN  /\ StartsWithAt(l, a, <<"h", "t", "t", "p">>)
        /\ StartsWithAt(l, c, <<":", "/", "/">>)
        /\ Len(l) >= c + 3
        /\ \A j \in (c + 3)..Len(l) : ~IsSpace(l[j])

\* PhabricatorTaskIdExpected.RE_BUGID = ^T[0-9]+$
RE_BUGID(value) ==
    /\ Len(value) >= 2
    /\ value[1] = "T"
    /\ \A j \in 2..Len(value) : IsDigit(value[j])

\* ChangeIdExpected.RE_CHANGEID = ^I[a-f0-9]{40}$
RE_CHANGEID(value) ==
    /\ Len(value) = ChangeIdLen + 1
    /\ value[1] = "I"
    /\ \A j \in 2..Len(value) : IsLowerHex(value[j])

\* GitHubSubjectNoBugNumber.regex = #\d+  (searched anywhere in the line)
RE_GH_BUG_NUMBER(line) ==
    \E j \in 1..(Len(line) - 1) : line[j] = "#" /\ IsDigit(line[j + 1])

\* GitHubNoForeignClose.regex =
\*   ^(?:close[sd]?|fix(?:e[sd])?|resolve[sd]?)\s+\S+/\S+#\d+  IGNORECASE
ClosingKeywords ==
    {<<"c", "l", "o", "s", "e">>, <<"c", "l", "o", "s", "e", "s">>,
     <<"c", "l", "o", "s", "e", "d">>,
     <<"f", "i", "x">>, <<"f", "i", "x", "e", "s">>, <<"f", "i", "x", "e", "d">>,
     <<"r", "e", "s", "o", "l", "v", "e">>, <<"r", "e", "s", "o", "l", "v", "e", "s">>,
     <<"r", "e", "s", "o", "l", "v", "e", "d">>}

RE_GH_FOREIGN_CLOSE(line) ==
    LET l == Lower(line)
    IN  \E kw \in ClosingKeywords :
            /\ StartsWith(l, kw)
            /\ \E p \in (Len(kw) + 2)..Len(l) :
                   \* l[Len(kw)+1 .. p-1] is the \s+, the reference starts at p
                   /\ \A j \in (Len(kw) + 1)..(p - 1) : IsSpace(l[j])
                   /\ \E a \in (p + 1)..Len(l) : \E b \in (a + 2)..(Len(l) - 1) :
                          /\ l[a] = "/"
                          /\ l[b] = "#"
                          /\ IsDigit(l[b + 1])
                          /\ \A j \in p..b : ~IsSpace(l[j])

(***************************************************************************)
(* The messages that are validated.                                        *)
(***************************************************************************)
\* the longest message built from the pool of lines
MaxLines == 3

Empty == <<>>

Prose == <<"F", "i", "x", " ", "i", "t">>

\* longer than the subject and the body limit
LongLine == Rep("x", BodyMaxLength_max_len + 1)

BugLine == <<"B", "u", "g", ":", " ", "T", "1">>

ChangeIdLine ==
    <<"C", "h", "a", "n", "g", "e", "-", "I", "d", ":", " ", "I">> \o Rep("0", ChangeIdLen)

\* an alias of Bug
FixesLine == <<"F", "i", "x", "e", "s", ":", " ", "T", "1">>

CherryPickLine == CherryPrefix \o Rep("a", ShaLen) \o <<")">>

\* trailer-shaped, not a known name
FooLine == <<"F", "o", "o", ":", " ", "b", "a", "r">>

\* a known name, misspelled, with two spaces
CcLine == <<"c", "c", ":", " ", " ", "x">>

\* a closing keyword with a reference into another repository
ForeignCloseLine == <<"F", "i", "x", "e", "s", " ", "o", "/", "r", "#", "7">>

LinePool ==
    {Empty, Prose, LongLine, BugLine, ChangeIdLine, FixesLine, CherryPickLine, FooLine,
     CcLine, ForeignCloseLine}

\* a subject that starts with bug and is too long
BugSubjectLine == <<"b", "u", "g", " ", "1", "2", "3", ":", " ">> \o Rep("x", 80)

\* a dependency trailer
DependsOnLine ==
    <<"D", "e", "p", "e", "n", "d", "s", "-", "O", "n", ":", " ", "I">> \o Rep("0", ChangeIdLen)

\* Change-Id in lower case
LowerChangeIdLine ==
    <<"c", "h", "a", "n", "g", "e", "-", "i", "d", ":", " ", "I">> \o Rep("0", ChangeIdLen)

\* a URL longer than a body line may be, bare and in angle brackets
UrlLine == <<"h", "t", "t", "p", "s", ":", "/", "/">> \o Rep("x", 93)

WrappedUrlLine == <<"<">> \o UrlLine \o <<">">>

\* trailers with values that are no change id and no task id
BadChangeIdLine == <<"C", "h", "a", "n", "g", "e", "-", "I", "d", ":", " ", "I", "1", "2", "3">>

BadBugLine == <<"B", "u", "g", ":", " ", "1", "2", "3">>

\* an unknown name with two spaces, an alias in upper case, an alias with a value that
\* is no task id
FooWsLine == <<"F", "o", "o", ":", " ", " ", "b", "a", "r">>

UpperFixesLine == <<"F", "I", "X", "E", "S", ":", " ", "T", "1">>

BadFixesLine == <<"F", "i", "x", "e", "s", ":", " ", "1", "2", "3">>

\* the longest line a body may have
FullLine == Rep("x", BodyMaxLength_max_len)

\* longer messages: a message with a body and a trailer block, and the variations of it
Scenarios ==
    { <<Prose, Empty, Prose, Empty, BugLine, ChangeIdLine>>,
      <<Prose, Empty, Prose, Empty, ChangeIdLine>>,
      <<BugSubjectLine, Empty, Prose, Empty, ChangeIdLine>>,
      <<Prose, Empty, Prose, Empty, ChangeIdLine, ChangeIdLine>>,
      <<Prose, Empty, Prose, Empty, FixesLine, ChangeIdLine>>,
      <<Prose, Empty, Prose, Empty, BugLine, Empty, Prose, ChangeIdLine>>,
      <<CcLine, Empty, Prose, Empty, BugLine, ChangeIdLine>>,
      <<ChangeIdLine, Empty, Prose, Empty, BugLine>>,
      <<Prose, Empty, LongLine, Empty, CherryPickLine, ChangeIdLine>>,
      <<Prose, Empty, Prose, BugLine, Empty, CherryPickLine>>,
      <<Prose, Empty, Prose, Empty, ChangeIdLine, DependsOnLine>>,
      <<Prose, Empty, Prose, Empty, DependsOnLine, ChangeIdLine>>,
      <<Prose, Empty, UrlLine, WrappedUrlLine, Empty, ChangeIdLine>>,
      <<Prose, Empty, Prose, Empty, LowerChangeIdLine, ChangeIdLine, BugLine>>,
      <<Prose, Empty, ChangeIdLine, Prose, ChangeIdLine, ChangeIdLine>>,
      <<Prose, Empty, Prose, Empty, BadBugLine, BadChangeIdLine>>,
      <<Prose, Empty, BadChangeIdLine>>,
      <<Prose, Empty, BugLine, Empty, CherryPickLine>>,
      <<Prose, Empty, FullLine, LongLine, Empty, ChangeIdLine>>,
      <<Prose, Empty, FooWsLine, Empty, BugLine, FooWsLine>>,
      <<BadBugLine, Empty, BadFixesLine, Empty, BugLine, UpperFixesLine, BadFixesLine>> }

Messages == (UNION {[1..n -> LinePool] : n \in 0..MaxLines}) \cup Scenarios

\* every line that occurs in a message
Lines == LinePool \cup UNION {{m[k] : k \in 1..Len(m)} : m \in Scenarios}

(***************************************************************************)
(* The regular expressions applied to the lines: each expression is        *)
(* evaluated once for every line, the rules look the match up.             *)
(***************************************************************************)
Match(line) ==
    LET m == RE_TRAILER(line)
    IN  [RE_TRAILER |-> m,
         name |-> IF m THEN TrailerName(line) ELSE <<>>,
         lower_name |-> IF m THEN Lower(TrailerName(line)) ELSE <<>>,
         ws |-> IF m THEN TrailerWs(line) ELSE <<>>,
         value |-> IF m THEN TrailerValue(line) ELSE <<>>,
         RE_BUGID |-> m /\ RE_BUGID(TrailerValue(line)),
         RE_CHANGEID |-> m /\ RE_CHANGEID(TrailerValue(line)),
         RE_CHERRYPICK |-> RE_CHERRYPICK(line),
         RE_REVERT |-> RE_REVERT(line),
         RE_SUBJECT_BUG_OR_TASK |-> RE_SUBJECT_BUG_OR_TASK(line),
         RE_URL |-> RE_URL(line),
         RE_GH_BUG_NUMBER |-> RE_GH_BUG_NUMBER(line),
         RE_GH_FOREIGN_CLOSE |-> RE_GH_FOREIGN_CLOSE(line)]

Matches == [line \in Lines |-> Match(line)]

\* the match objects of the lines of the message under validation
VARIABLE matches

\* m = RE_TRAILER.match(line) and its groups m.group("name"), m.group("name").lower(),
\* m.group("ws"), m.group("value")
RE_TRAILER_match(line) == matches[line].RE_TRAILER

group_name(line) == matches[line].name

group_name_lower(line) == matches[line].lower_name

group_ws(line) == matches[line].ws

group_value(line) == matches[line].value

\* RE_BUGID.match(value) and RE_CHANGEID.match(value) for the value of a trailer line
RE_BUGID_match(line) == matches[line].RE_BUGID

RE_CHANGEID_match(line) == matches[line].RE_CHANGEID

RE_CHERRYPICK_match(line) == matches[line].RE_CHERRYPICK

RE_REVERT_match(line) == matches[line].RE_REVERT

RE_SUBJECT_BUG_OR_TASK_search(line) == matches[line].RE_SUBJECT_BUG_OR_TASK

RE_URL_match(line) == matches[line].RE_URL

RE_GH_BUG_NUMBER_search(line) == matches[line].RE_GH_BUG_NUMBER

RE_GH_FOREIGN_CLOSE_search(line) == matches[line].RE_GH_FOREIGN_CLOSE

(***************************************************************************)
(* Python sequence indexing: lines[k] for a 0-indexed k, negative k counts *)
(* from the end, anything else raises IndexError.                          *)
(***************************************************************************)
IndexError == <<"IndexError">>

PyIndex(lines, k) ==
    IF 0 <= k /\ k < Len(lines) THEN lines[k + 1]
    ELSE IF k < 0 /\ -k <= Len(lines) THEN lines[Len(lines) + k + 1]
    ELSE IndexError

\* ", ".join(names)
RECURSIVE Join(_)
Join(names) ==
    IF Len(names) = 0 THEN <<>>
    ELSE IF Len(names) = 1 THEN names[1]
    ELSE names[1] \o <<",", " ">> \o Join(Tail(names))

\* the concatenation of a sequence of sequences
RECURSIVE Flatten(_)
Flatten(seqs) ==
    IF Len(seqs) = 0 THEN <<>> ELSE Head(seqs) \o Flatten(Tail(seqs))

\* x in names, for a Python list of names
InList(x, names) == \E k \in 1..Len(names) : names[k] = x

(***************************************************************************)
(* ValidationFailure(rule_id, lineno, message).  The message is kept as    *)
(* its format string and the values formatted into it.                     *)
(***************************************************************************)
ValidationFailure(rule_id, lineno, text, name, other, num) ==
    [rule_id |-> rule_id, lineno |-> lineno,
     message |-> [text |-> text, name |-> name, other |-> other, num |-> num]]

\* a failure whose message formats nothing in
Failure(rule_id, lineno, text) == ValidationFailure(rule_id, lineno, text, <<>>, <<>>, 0)

(***************************************************************************)
(* Line rules: validate(lineno, line, context) yields failures.            *)
(***************************************************************************)
\* LineLengthRule.validate, after the context test of the subclass
\* (only the message of BodyMaxLength has the {0} the length is formatted into)
LineLengthRule(id, msg, max_len, lineno, line) ==
    IF Len(line) > max_len
    THEN <<ValidationFailure(id, lineno, msg, <<>>, <<>>,
                             IF id = "B1" THEN Len(line) ELSE 0)>>
    ELSE <<>>

SubjectMaxLength(lineno, line, context) ==
    IF context # "SUBJECT" THEN <<>>
    ELSE IF ~RE_REVERT_match(line)
    THEN LineLengthRule("S1", "Subject must be <=80 characters",
                        SubjectMaxLength_max_len, lineno, line)
    ELSE <<>>

\* LineRegexNoMatchRule.validate
LineRegexNoMatchRule(id, msg, ctx, found, lineno, context) ==
    IF context # ctx THEN <<>>
    ELSE IF found THEN <<Failure(id, lineno, msg)>>
    ELSE <<>>

SubjectNoBugOrTask(lineno, line, context) ==
    LineRegexNoMatchRule("S2", "Do not define bug in the subject", "SUBJECT",
                         RE_SUBJECT_BUG_OR_TASK_search(line), lineno, context)

\* BodyMaxLength that measures a URL like every other line
BodyMaxLength_url_measured(lineno, line, context) ==
    IF context # "BODY" THEN <<>>
    ELSE LineLengthRule("B1", "Line exceeds max length ({0}>{1})",
                        BodyMaxLength_max_len, lineno, line)

BodyMaxLength(lineno, line, context) ==
    IF context # "BODY" THEN <<>>
    ELSE IF ~RE_URL_match(line)
    THEN LineLengthRule("B1", "Line exceeds max length ({0}>{1})",
                        BodyMaxLength_max_len, lineno, line)
    ELSE <<>>

TrailerNoBlankLines(lineno, line, context) ==
    IF context # "TRAILER" THEN <<>>
    ELSE IF line = <<>> THEN <<Failure("F1", lineno, "Unexpected blank line")>>
    ELSE <<>>

\* TrailerInBody without its test of the context
TrailerInBody_any_context(expected, lineno, line, context) ==
    IF ~RE_TRAILER_match(line) THEN <<>>
    ELSE IF Len(expected) > 0 /\ ~InList(group_name_lower(line), expected) THEN <<>>
    ELSE <<ValidationFailure("F2", lineno, "Expected '{name}:' to be in trailer",
                             group_name(line), <<>>, 0)>>

\* TrailerInBody without its test of the name
TrailerInBody_any_name(expected, lineno, line, context) ==
    IF context # "BODY" THEN <<>>
    ELSE IF ~RE_TRAILER_match(line) THEN <<>>
    ELSE <<ValidationFailure("F2", lineno, "Expected '{name}:' to be in trailer",
                             group_name(line), <<>>, 0)>>

\* expected is a list of lowercased names; an empty list filters nothing
TrailerInBody(expected, lineno, line, context) ==
    IF context # "BODY" THEN <<>>
    ELSE IF ~RE_TRAILER_match(line) THEN <<>>
    ELSE LET name == group_name(line)
             normalized == group_name_lower(line)
         IN  IF Len(expected) > 0 /\ ~InList(normalized, expected) THEN <<>>
             ELSE <<ValidationFailure("F2", lineno, "Expected '{name}:' to be in trailer",
                                      name, <<>>, 0)>>

\* "if self.fixup and normalized_name in self.fixup: normalized_name = self.fixup[...]"
\* fixup is a function from aliases to names; the empty function is no fixup
ApplyFixup(fixup, normalized_name) ==
    IF normalized_name \in DOMAIN fixup THEN fixup[normalized_name] ELSE normalized_name

\* trailers = {trailer.lower(): trailer for trailer in self.expected}; trailers.get(n)
\* (a later entry of the list overwrites an earlier one with the same key)
HasTrailer(expected, n) == \E k \in 1..Len(expected) : Lower(expected[k]) = n

GetTrailer(expected, n) ==
    LET ks == {k \in 1..Len(expected) : Lower(expected[k]) = n}
    IN  expected[CHOOSE k \in ks : \A j \in ks : j <= k]

\* ExpectedTrailers that reports an unexpected name in every context
ExpectedTrailers_any_context(expected, fixup, lineno, line, context) ==
    IF ~RE_TRAILER_match(line) THEN <<>>
    ELSE LET name == group_name(line)
             normalized_name == ApplyFixup(fixup, group_name_lower(line))
             ws == group_ws(line)
             known == HasTrailer(expected, normalized_name)
             f3 == IF ~known
                   THEN <<ValidationFailure("F3", lineno,
                            "Unexpected trailer '{name}'. Supported trailers: {supported}",
                            name, Join(expected), 0)>>
                   ELSE <<>>
             f4 == IF known /\ GetTrailer(expected, normalized_name) # name
                   THEN <<ValidationFailure("F4", lineno, "Use '{correct_name}:' not '{name}:'",
                            name, GetTrailer(expected, normalized_name), 0)>>
                   ELSE <<>>
             f5 == IF ws # <<" ">>
                   THEN <<ValidationFailure("F5", lineno, "Expected one space after '{name}:'",
                            name, <<>>, 0)>>
                   ELSE <<>>
         IN  f3 \o f4 \o f5

\* ExpectedTrailers that works with the lowercased name alone
ExpectedTrailers_lowercased(expected, fixup, lineno, line, context) ==
    IF ~RE_TRAILER_match(line) THEN <<>>
    ELSE LET name == group_name_lower(line)
             normalized_name == ApplyFixup(fixup, group_name_lower(line))
             ws == group_ws(line)
             known == HasTrailer(expected, normalized_name)
             f3 == IF ~known
                   THEN <<ValidationFailure("F3", lineno,
                            "Unexpected trailer '{name}'. Supported trailers: {supported}",
                            name, Join(expected), 0)>>
                   ELSE <<>>
             f4 == IF known /\ GetTrailer(expected, normalized_name) # name
                   THEN <<ValidationFailure("F4", lineno, "Use '{correct_name}:' not '{name}:'",
                            name, GetTrailer(expected, normalized_name), 0)>>
                   ELSE <<>>
             f5 == IF ws # <<" ">>
                   THEN <<ValidationFailure("F5", lineno, "Expected one space after '{name}:'",
                            name, <<>>, 0)>>
                   ELSE <<>>
         IN  IF ~known /\ context # "TRAILER" THEN <<>>
             ELSE f3 \o f4 \o f5

ExpectedTrailers(expected, fixup, lineno, line, context) ==
    IF ~RE_TRAILER_match(line) THEN <<>>
    ELSE LET name == group_name(line)
             normalized_name == ApplyFixup(fixup, group_name_lower(line))
             ws == group_ws(line)
             known == HasTrailer(expected, normalized_name)
             f3 == IF ~known
                   THEN <<ValidationFailure("F3", lineno,
                            "Unexpected trailer '{name}'. Supported trailers: {supported}",
                            name, Join(expected), 0)>>
                   ELSE <<>>
             f4 == IF known /\ GetTrailer(expected, normalized_name) # name
                   THEN <<ValidationFailure("F4", lineno, "Use '{correct_name}:' not '{name}:'",
                            name, GetTrailer(expected, normalized_name), 0)>>
                   ELSE <<>>
             f5 == IF ws # <<" ">>
                   THEN <<ValidationFailure("F5", lineno, "Expected one space after '{name}:'",
                            name, <<>>, 0)>>
                   ELSE <<>>
         IN  IF ~known /\ context # "TRAILER" THEN <<>>
             ELSE f3 \o f4 \o f5

\* PhabricatorTaskIdExpected that does not map the aliases
PhabricatorTaskIdExpected_no_fixup(fixup, lineno, line) ==
    IF ~RE_TRAILER_match(line) THEN <<>>
    ELSE IF group_name_lower(line) = <<"b", "u", "g">> /\ ~RE_BUGID_match(line)
    THEN <<Failure("F6", lineno, "Bug: value must be a single phabricator task ID")>>
    ELSE <<>>

PhabricatorTaskIdExpected(fixup, lineno, line) ==
    IF ~RE_TRAILER_match(line) THEN <<>>
    ELSE LET normalized_name == ApplyFixup(fixup, group_name_lower(line))
         IN  IF normalized_name = <<"b", "u", "g">> /\ ~RE_BUGID_match(line)
             THEN <<Failure("F6", lineno, "Bug: value must be a single phabricator task ID")>>
             ELSE <<>>

ChangeIdExpected(names, fixup, lineno, line) ==
    IF ~RE_TRAILER_match(line) THEN <<>>
    ELSE LET name == group_name(line)
             normalized_name == ApplyFixup(fixup, group_name_lower(line))
         IN  IF InList(normalized_name, names) /\ ~RE_CHANGEID_match(line)
             THEN <<ValidationFailure("F7", lineno,
                      "{name}: value must be a single Gerrit change id", name, <<>>, 0)>>
             ELSE <<>>

\* UnexpectedTrailerLine without its test for the empty line
UnexpectedTrailerLine_blank_too(lineno, line, context) ==
    IF context # "TRAILER" THEN <<>>
    ELSE IF ~RE_TRAILER_match(line) /\ ~RE_CHERRYPICK_match(line)
    THEN <<Failure("F8", lineno, "Expected trailer line to follow format of 'Name: ...'")>>
    ELSE <<>>

UnexpectedTrailerLine(lineno, line, context) ==
    IF context # "TRAILER" THEN <<>>
    ELSE IF line = <<>> THEN <<>>
    ELSE IF ~RE_TRAILER_match(line) /\ ~RE_CHERRYPICK_match(line)
    THEN <<Failure("F8", lineno, "Expected trailer line to follow format of 'Name: ...'")>>
    ELSE <<>>

\* GitHubSubjectNoBugNumber without a context of its own
GitHubSubjectNoBugNumber_any_context(lineno, line, context) ==
    IF RE_GH_BUG_NUMBER_search(line)
    THEN <<Failure("GH1", lineno, "Do not define bug in the subject")>>
    ELSE <<>>

GitHubSubjectNoBugNumber(lineno, line, context) ==
    LineRegexNoMatchRule("GH1", "Do not define bug in the subject", "SUBJECT",
                         RE_GH_BUG_NUMBER_search(line), lineno, context)

GitHubNoForeignClose(lineno, line, context) ==
    LineRegexNoMatchRule("GH2",
        "Do not write closing issue keywords for closing an issue that is in another repository",
        "BODY", RE_GH_FOREIGN_CLOSE_search(line), lineno, context)

(***************************************************************************)
(* Commit rules: validate(lines) yields failures.  A rule that indexes the *)
(* message returns [raised, failures]: raised when the index is out of     *)
(* range.                                                                  *)
(***************************************************************************)
Yield(failures) == [raised |-> FALSE, failures |-> failures]

Raise == [raised |-> TRUE, failures |-> <<>>]

\* CommitSecondLineEmpty without the test of the length
CommitSecondLineEmpty_unguarded(lines) ==
    LET second == PyIndex(lines, 1)
    IN  IF second = IndexError THEN Raise
        ELSE IF second # <<>>
        THEN Yield(<<Failure("C1", 2, "Second line should be empty")>>)
        ELSE Yield(<<>>)

\* CommitSecondLineEmpty testing lines[0]
CommitSecondLineEmpty_subject(lines) ==
    IF Len(lines) > 1
    THEN LET second == PyIndex(lines, 0)
         IN  IF second = IndexError THEN Raise
             ELSE IF second # <<>>
             THEN Yield(<<Failure("C1", 2, "Second line should be empty")>>)
             ELSE Yield(<<>>)
    ELSE Yield(<<>>)

CommitSecondLineEmpty(lines) ==
    IF Len(lines) > 1
    THEN LET second == PyIndex(lines, 1)
         IN  IF second = IndexError THEN Raise
             ELSE IF second # <<>>
             THEN Yield(<<Failure("C1", 2, "Second line should be empty")>>)
             ELSE Yield(<<>>)
    ELSE Yield(<<>>)

\* CommitMinLines with <= for <
CommitMinLines_at_most(lines) ==
    IF Len(lines) <= CommitMinLines_min
    THEN <<Failure("C2", Len(lines), "Expected at least 3 lines")>>
    ELSE <<>>

CommitMinLines(lines) ==
    IF Len(lines) < CommitMinLines_min
    THEN <<Failure("C2", Len(lines), "Expected at least 3 lines")>>
    ELSE <<>>

\* the loop of CherryPickLast.validate from the 0-indexed lineno on
RECURSIVE CherryPickLastFrom(_, _)
CherryPickLastFrom(lines, lineno) ==
    IF lineno >= Len(lines) THEN <<>>
    ELSE (IF RE_CHERRYPICK_match(lines[lineno + 1]) /\ lineno # Len(lines) - 1
          THEN <<Failure("C3", lineno + 1, "Cherry pick line is not the last line")>>
          ELSE <<>>)
         \o CherryPickLastFrom(lines, lineno + 1)

\* CherryPickLast without the test for the last line
CherryPickLast_any_line(lines) ==
    Flatten([k \in 1..Len(lines) |->
                IF RE_CHERRYPICK_match(lines[k])
                THEN <<Failure("C3", k, "Cherry pick line is not the last line")>>
                ELSE <<>>])

CherryPickLast(lines) == CherryPickLastFrom(lines, 0)

\* the loop of ChangeIdRequired.validate from the 0-indexed lineno on; changeid is
\* 0 (False) until the first Change-Id line is seen, then its 1-indexed number
RECURSIVE ChangeIdRequiredFrom(_, _, _, _)
ChangeIdRequiredFrom(before, lines, lineno, changeid) ==
    IF lineno >= Len(lines)
    THEN (IF changeid = 0
          THEN <<Failure("C6", Len(lines), "Expected Change-Id")>>
          ELSE <<>>)
    ELSE LET line == lines[lineno + 1]
             m == RE_TRAILER_match(line)
             normalized == IF m THEN group_name_lower(line) ELSE <<>>
             isid == m /\ normalized = <<"c", "h", "a", "n", "g", "e", "-", "i", "d">>
         IN  (IF isid /\ changeid # 0
              THEN <<ValidationFailure("C4", lineno + 1,
                       "Extra Change-Id found, first at {changeid}", <<>>, <<>>, changeid)>>
              ELSE IF m /\ ~isid /\ InList(normalized, before) /\ changeid # 0
              THEN <<ValidationFailure("C5", lineno + 1,
                       "Expected '{name}:' to come before Change-Id on line {changeid}",
                       group_name(line), <<>>, changeid)>>
              ELSE <<>>)
             \o ChangeIdRequiredFrom(before, lines, lineno + 1,
                                     IF isid /\ changeid = 0 THEN lineno + 1 ELSE changeid)

\* changeid is already set when the loop starts
ChangeIdRequired_changeid_set(before, lines) == ChangeIdRequiredFrom(before, lines, 0, 1)

\* the missing Change-Id is reported at the 0-indexed last line
ChangeIdRequired_last_index(before, lines) ==
    LET r == ChangeIdRequiredFrom(before, lines, 0, 0)
    IN  [k \in 1..Len(r) |->
            IF r[k].rule_id = "C6" THEN [r[k] EXCEPT !.lineno = Len(lines) - 1] ELSE r[k]]

\* nothing has to come before the Change-Id line
ChangeIdRequired_no_before(before, lines) == ChangeIdRequiredFrom(<<>>, lines, 0, 0)

ChangeIdRequired(before, lines) == ChangeIdRequiredFrom(before, lines, 0, 0)

(***************************************************************************)
(* The validator profiles (wikimedia.py, github.py).                       *)
(***************************************************************************)
EXPECTED_TRAILERS ==
    << <<"A", "c", "k", "e", "d", "-", "b", "y">>,
       <<"B", "u", "g">>,
       <<"C", "c">>,
       <<"C", "h", "a", "n", "g", "e", "-", "I", "d">>,
       <<"C", "o", "-", "A", "u", "t", "h", "o", "r", "e", "d", "-", "b", "y">>,
       <<"D", "e", "p", "e", "n", "d", "s", "-", "O", "n">>,
       <<"H", "o", "s", "t", "s">>,
       <<"C", "h", "a", "n", "g", "e", "-", "P", "r", "i", "v", "a", "t", "e">>,
       <<"N", "e", "e", "d", "e", "d", "-", "B", "y">>,
       <<"R", "e", "p", "o", "r", "t", "e", "d", "-", "b", "y">>,
       <<"R", "e", "q", "u", "e", "s", "t", "e", "d", "-", "b", "y">>,
       <<"R", "e", "v", "i", "e", "w", "e", "d", "-", "b", "y">>,
       <<"S", "i", "g", "n", "e", "d", "-", "o", "f", "f", "-", "b", "y">>,
       <<"S", "u", "g", "g", "e", "s", "t", "e", "d", "-", "b", "y">>,
       <<"T", "e", "s", "t", "e", "d", "-", "b", "y">>,
       <<"T", "h", "a", "n", "k", "s">> >>

NORMALIZED_EXPECTED_TRAILERS == [k \in 1..Len(EXPECTED_TRAILERS) |-> Lower(EXPECTED_TRAILERS[k])]

BEFORE_CHANGE_ID ==
    << <<"b", "u", "g">>, <<"c", "l", "o", "s", "e", "s">>,
       <<"f", "i", "x", "e", "s">>, <<"t", "a", "s", "k">> >>

\* list(BAD_TRAILERS.keys())
BAD_TRAILERS_keys ==
    << <<"c", "l", "o", "s", "e", "s">>, <<"f", "i", "x", "e", "s">>, <<"t", "a", "s", "k">> >>

BAD_TRAILERS ==
    [a \in {BAD_TRAILERS_keys[k] : k \in 1..Len(BAD_TRAILERS_keys)} |-> <<"b", "u", "g">>]

\* fixup=None
NoFixup == [a \in {} |-> <<>>]

\* a configured rule: the rule class and its arguments
Rule(rule, expected, fixup, names) ==
    [rule |-> rule, expected |-> expected, fixup |-> fixup, names |-> names]

PlainRule(rule) == Rule(rule, <<>>, NoFixup, <<>>)

GerritMessageValidator ==
    [line_rules |->
        << PlainRule("SubjectMaxLength"),
           PlainRule("SubjectNoBugOrTask"),
           PlainRule("BodyMaxLength"),
           Rule("TrailerInBody", NORMALIZED_EXPECTED_TRAILERS \o BAD_TRAILERS_keys,
                NoFixup, <<>>),
           PlainRule("TrailerNoBlankLines"),
           Rule("ExpectedTrailers", EXPECTED_TRAILERS, BAD_TRAILERS, <<>>),
           Rule("PhabricatorTaskIdExpected", <<>>, BAD_TRAILERS, << <<"b", "u", "g">> >>),
           Rule("ChangeIdExpected", <<>>, NoFixup,
                << <<"d", "e", "p", "e", "n", "d", "s", "-", "o", "n">>,
                   <<"n", "e", "e", "d", "e", "d", "-", "b", "y">>,
                   <<"c", "h", "a", "n", "g", "e", "-", "i", "d">> >>),
           PlainRule("UnexpectedTrailerLine") >>,
     commit_rules |->
        << PlainRule("CommitMinLines"),
           PlainRule("CommitSecondLineEmpty"),
           PlainRule("CherryPickLast"),
           Rule("ChangeIdRequired", <<>>, NoFixup, BEFORE_CHANGE_ID) >>,
     expected_trailers |-> NORMALIZED_EXPECTED_TRAILERS]

\* GitLabMessageValidator whose ExpectedTrailers has no fixup table
GitLabMessageValidator_no_fixup ==
    [line_rules |->
        << PlainRule("SubjectMaxLength"),
           PlainRule("SubjectNoBugOrTask"),
           PlainRule("BodyMaxLength"),
           Rule("TrailerInBody", NORMALIZED_EXPECTED_TRAILERS \o BAD_TRAILERS_keys,
                NoFixup, <<>>),
           PlainRule("TrailerNoBlankLines"),
           Rule("ExpectedTrailers", EXPECTED_TRAILERS, NoFixup, <<>>),
           Rule("PhabricatorTaskIdExpected", <<>>, BAD_TRAILERS, << <<"b", "u", "g">> >>),
           PlainRule("UnexpectedTrailerLine") >>,
     commit_rules |->
        << PlainRule("CommitSecondLineEmpty"),
           PlainRule("CherryPickLast") >>,
     expected_trailers |-> NORMALIZED_EXPECTED_TRAILERS]

GitLabMessageValidator ==
    [line_rules |->
        << PlainRule("SubjectMaxLength"),
           PlainRule("SubjectNoBugOrTask"),
           PlainRule("BodyMaxLength"),
           Rule("TrailerInBody", NORMALIZED_EXPECTED_TRAILERS \o BAD_TRAILERS_keys,
                NoFixup, <<>>),
           PlainRule("TrailerNoBlankLines"),
           Rule("ExpectedTrailers", EXPECTED_TRAILERS, BAD_TRAILERS, <<>>),
           Rule("PhabricatorTaskIdExpected", <<>>, BAD_TRAILERS, << <<"b", "u", "g">> >>),
           PlainRule("UnexpectedTrailerLine") >>,
     commit_rules |->
        << PlainRule("CommitSecondLineEmpty"),
           PlainRule("CherryPickLast") >>,
     expected_trailers |-> NORMALIZED_EXPECTED_TRAILERS]

GitHubMessageValidator ==
    [line_rules |->
        << PlainRule("SubjectMaxLength"),
           PlainRule("BodyMaxLength"),
           PlainRule("GitHubSubjectNoBugNumber"),
           PlainRule("GitHubNoForeignClose") >>,
     commit_rules |->
        << PlainRule("CommitSecondLineEmpty") >>,
     expected_trailers |-> <<>>]

ValidatorClasses == {"GerritMessageValidator", "GitLabMessageValidator", "GitHubMessageValidator"}

\* cls(): the rules and the trailer names a validator class is constructed with
Validator(c) ==
    CASE c = "GerritMessageValidator" -> GerritMessageValidator
      [] c = "GitLabMessageValidator" -> GitLabMessageValidator
      [] c = "GitHubMessageValidator" -> GitHubMessageValidator

\* rule.validate(lineno, line, context) of a configured line rule
LineRuleValidate(r, lineno, line, context) ==
    CASE r.rule = "SubjectMaxLength" -> SubjectMaxLength(lineno, line, context)
      [] r.rule = "SubjectNoBugOrTask" -> SubjectNoBugOrTask(lineno, line, context)
      [] r.rule = "BodyMaxLength" -> BodyMaxLength(lineno, line, context)
      [] r.rule = "TrailerInBody" -> TrailerInBody(r.expected, lineno, line, context)
      [] r.rule = "TrailerNoBlankLines" -> TrailerNoBlankLines(lineno, line, context)
      [] r.rule = "ExpectedTrailers" ->
             ExpectedTrailers(r.expected, r.fixup, lineno, line, context)
      [] r.rule = "PhabricatorTaskIdExpected" ->
             PhabricatorTaskIdExpected(r.fixup, lineno, line)
      [] r.rule = "ChangeIdExpected" -> ChangeIdExpected(r.names, r.fixup, lineno, line)
      [] r.rule = "UnexpectedTrailerLine" -> UnexpectedTrailerLine(lineno, line, context)
      [] r.rule = "GitHubSubjectNoBugNumber" ->
             GitHubSubjectNoBugNumber(lineno, line, context)
      [] r.rule = "GitHubNoForeignClose" -> GitHubNoForeignClose(lineno, line, context)

\* rule.validate(lines) of a configured commit rule
CommitRuleValidate(r, lines) ==
    CASE r.rule = "CommitSecondLineEmpty" -> CommitSecondLineEmpty(lines)
      [] r.rule = "CommitMinLines" -> Yield(CommitMinLines(lines))
      [] r.rule = "CherryPickLast" -> Yield(CherryPickLast(lines))
      [] r.rule = "ChangeIdRequired" -> Yield(ChangeIdRequired(r.names, lines))

(***************************************************************************)
(* RulesMessageValidator.                                                  *)
(***************************************************************************)
\* get_context deciding every line anew, also after TRAILER was entered
get_context_recomputed(expected_trailers, message_context, lineno, lines) ==
    IF lineno = 0 THEN [raised |-> FALSE, context |-> "SUBJECT"]
    ELSE IF Len(expected_trailers) = 0 THEN [raised |-> FALSE, context |-> "BODY"]
    ELSE LET line == PyIndex(lines, lineno)
             shaped == \/ /\ RE_TRAILER_match(line)
                          /\ InList(group_name_lower(line), expected_trailers)
                       \/ RE_CHERRYPICK_match(line)
         IN  IF shaped /\ PyIndex(lines, lineno - 1) = <<>>
             THEN [raised |-> FALSE, context |-> "TRAILER"]
             ELSE [raised |-> FALSE, context |-> "BODY"]

\* get_context without the test of the previous line
get_context_no_blank(expected_trailers, message_context, lineno, lines) ==
    IF lineno = 0 THEN [raised |-> FALSE, context |-> "SUBJECT"]
    ELSE IF Len(expected_trailers) = 0 THEN [raised |-> FALSE, context |-> "BODY"]
    ELSE IF message_context # "TRAILER"
    THEN LET line == PyIndex(lines, lineno)
             shaped == \/ /\ RE_TRAILER_match(line)
                          /\ InList(group_name_lower(line), expected_trailers)
                       \/ RE_CHERRYPICK_match(line)
         IN  IF shaped
             THEN [raised |-> FALSE, context |-> "TRAILER"]
             ELSE [raised |-> FALSE, context |-> "BODY"]
    ELSE [raised |-> FALSE, context |-> message_context]

\* get_context(lineno, lines) for the 0-indexed lineno, from the _message_context the
\* instance holds: the new _message_context (which is also returned), or raised
\* get_context without the branch for a validator that has no expected trailers
get_context_without_empty_test(expected_trailers, message_context, lineno, lines) ==
    IF lineno = 0 THEN [raised |-> FALSE, context |-> "SUBJECT"]
    ELSE IF message_context # "TRAILER"
    THEN LET line == PyIndex(lines, lineno)
         IN  IF line = IndexError THEN [raised |-> TRUE, context |-> message_context]
             ELSE LET trailer_match == RE_TRAILER_match(line)
                      cherrypick_match == RE_CHERRYPICK_match(line)
                      shaped == \/ /\ trailer_match
                                   /\ InList(group_name_lower(line), expected_trailers)
                                \/ cherrypick_match
                      previous == IF shaped THEN PyIndex(lines, lineno - 1) ELSE <<>>
                  IN  IF shaped /\ previous = IndexError
                      THEN [raised |-> TRUE, context |-> message_context]
                      ELSE IF shaped /\ previous = <<>>
                      THEN [raised |-> FALSE, context |-> "TRAILER"]
                      ELSE [raised |-> FALSE, context |-> "BODY"]
    ELSE [raised |-> FALSE, context |-> message_context]

\* get_context that keeps the TRAILER context of the instance at the first line
get_context_trailer_kept(expected_trailers, message_context, lineno, lines) ==
    IF lineno = 0
    THEN [raised |-> FALSE,
          context |-> IF message_context = "TRAILER" THEN "TRAILER" ELSE "SUBJECT"]
    ELSE get_context_recomputed(expected_trailers, message_context, lineno, lines)

get_context(expected_trailers, message_context, lineno, lines) ==
    IF lineno = 0 THEN [raised |-> FALSE, context |-> "SUBJECT"]
    ELSE IF Len(expected_trailers) = 0 THEN [raised |-> FALSE, context |-> "BODY"]
    ELSE IF message_context # "TRAILER"
    THEN LET line == PyIndex(lines, lineno)
         IN  IF line = IndexError THEN [raised |-> TRUE, context |-> message_context]
             ELSE LET trailer_match == RE_TRAILER_match(line)
                      cherrypick_match == RE_CHERRYPICK_match(line)
                      shaped == \/ /\ trailer_match
                                   /\ InList(group_name_lower(line), expected_trailers)
                                \/ cherrypick_match
                      previous == IF shaped THEN PyIndex(lines, lineno - 1) ELSE <<>>
                  IN  IF shaped /\ previous = IndexError
                      THEN [raised |-> TRUE, context |-> message_context]
                      ELSE IF shaped /\ previous = <<>>
                      THEN [raised |-> FALSE, context |-> "TRAILER"]
                      ELSE [raised |-> FALSE, context |-> "BODY"]
    ELSE [raised |-> FALSE, context |-> message_context]

\* check_line that stops at the first rule that yields a failure
line_rules_validate_first_failing(line_rules, lineno, line, context) ==
    LET failing == {k \in 1..Len(line_rules) :
                       LineRuleValidate(line_rules[k], lineno, line, context) # <<>>}
    IN  IF failing = {} THEN <<>>
        ELSE LineRuleValidate(line_rules[CHOOSE k \in failing : \A j \in failing : k <= j],
                              lineno, line, context)

\* the failures the line rules yield for one line, in the order of the rule list
line_rules_validate(line_rules, lineno, line, context) ==
    Flatten([k \in 1..Len(line_rules) |-> LineRuleValidate(line_rules[k], lineno, line, context)])

\* check_line(lineno, line) for the 1-indexed lineno: the context, then every line rule
check_line(v, message_context, lineno, line, lines) ==
    LET c == get_context(v.expected_trailers, message_context, lineno - 1, lines)
    IN  [raised |-> c.raised,
         context |-> c.context,
         failures |-> IF c.raised THEN <<>>
                      ELSE line_rules_validate(v.line_rules, lineno, line, c.context)]

\* check_global(lines): every commit rule, in the order of the rule list
check_global(v, lines) ==
    LET rs == [k \in 1..Len(v.commit_rules) |-> CommitRuleValidate(v.commit_rules[k], lines)]
    IN  [raised |-> \E k \in 1..Len(rs) : rs[k].raised,
         failures |-> Flatten([k \in 1..Len(rs) |-> rs[k].failures])]

(***************************************************************************)
(* lint_message: errors.sort(key=rule_id); errors.sort(key=lineno).        *)
(* list.sort is stable.                                                    *)
(***************************************************************************)
\* the rule identifiers in the order of Python's string comparison
RuleIds ==
    <<"B1", "C1", "C2", "C3", "C4", "C5", "C6", "F1", "F2", "F3", "F4", "F5", "F6", "F7",
      "F8", "GH1", "GH2", "S1", "S2">>

\* a < b for two rule identifiers
RuleIdLess(a, b) ==
    (CHOOSE k \in 1..Len(RuleIds) : RuleIds[k] = a) < (CHOOSE k \in 1..Len(RuleIds) : RuleIds[k] = b)

\* attrgetter(key)(a) < attrgetter(key)(b) for the key "rule_id" or "lineno"
KeyLess(key, a, b) ==
    IF key = "rule_id" THEN RuleIdLess(a.rule_id, b.rule_id) ELSE a.lineno < b.lineno

\* insert e into the sorted list after every element that is not greater (stable)
RECURSIVE InsertSorted(_, _, _)
InsertSorted(key, sorted, e) ==
    IF Len(sorted) = 0 THEN <<e>>
    ELSE IF KeyLess(key, e, Head(sorted)) THEN <<e>> \o sorted
    ELSE <<Head(sorted)>> \o InsertSorted(key, Tail(sorted), e)

\* list.sort(key=...): a stable sort by the key
RECURSIVE SortFrom(_, _, _)
SortFrom(key, sorted, rest) ==
    IF Len(rest) = 0 THEN sorted
    ELSE SortFrom(key, InsertSorted(key, sorted, Head(rest)), Tail(rest))

SortByRuleId(errors) == SortFrom("rule_id", <<>>, errors)

SortByLineno(errors) == SortFrom("lineno", <<>>, errors)

\* the two sorts in the other order
lint_message_sort_swapped(errors) == SortByRuleId(SortByLineno(errors))

\* the sort by line number alone
lint_message_sort_lineno_only(errors) == SortByLineno(errors)

\* the two sorts of lint_message, in the order of the source
lint_message_sort(errors) == SortByLineno(SortByRuleId(errors))

\* MessageValidator.validate: "for lineno, line in enumerate(lines)" from the 0-indexed
\* lineno on, for a validator whose _message_context is message_context
RECURSIVE validate_lines(_, _, _, _)
validate_lines(v, message_context, lineno, lines) ==
    IF lineno >= Len(lines) THEN [raised |-> FALSE, failures |-> <<>>]
    ELSE LET r == check_line(v, message_context, lineno + 1, lines[lineno + 1], lines)
             rest == validate_lines(v, r.context, lineno + 1, lines)
         IN  IF r.raised THEN [raised |-> TRUE, failures |-> <<>>]
             ELSE [raised |-> rest.raised, failures |-> r.failures \o rest.failures]

\* validate that loses the context of the lines before: every line is checked by a
\* validator that has seen no line
validate_forgetful(v, message_context, lines) ==
    LET ls == [k \in 1..Len(lines) |-> check_line(v, "None", k, lines[k], lines)]
        g == check_global(v, lines)
    IN  [raised |-> g.raised \/ \E k \in 1..Len(ls) : ls[k].raised,
         failures |-> Flatten([k \in 1..Len(ls) |-> ls[k].failures]) \o g.failures]

\* list(validator.validate(lines)): every line, then check_global
validate(v, message_context, lines) ==
    LET ls == validate_lines(v, message_context, 0, lines)
        g == check_global(v, lines)
    IN  [raised |-> ls.raised \/ g.raised, failures |-> ls.failures \o g.failures]

\* lint_message(lines, cls) for the validator cls() constructs: its _message_context
\* is None
lint_message_errors(v, lines) == lint_message_sort(validate(v, "None", lines).failures)

(***************************************************************************)
(* The state: one call of check_message(lines, validator_cls).             *)
(***************************************************************************)
VARIABLES
    validator_cls,      \* the validator class check_message is called with
    lines,              \* the commit message
    pc,                 \* "validate", "sort", "report", "done" or "raised"
    lineno,             \* the 0-indexed line MessageValidator.validate is at
    message_context,    \* RulesMessageValidator._message_context
    contexts,           \* what get_context returned, for each line so far
    errors,             \* the failures validate has yielded
    result,             \* what lint_message returns
    printed,            \* the lines check_message has printed
    exit_code           \* what check_message returns, -1 before it returns

vars == <<validator_cls, lines, matches, pc, lineno, message_context, contexts, errors, result,
          printed, exit_code>>

\* cls() in lint_message: a fresh validator, nothing validated yet
Init ==
    /\ validator_cls \in ValidatorClasses
    /\ lines \in Messages
    /\ matches = [line \in {lines[k] : k \in 1..Len(lines)} |-> Matches[line]]
    /\ pc = "validate"
    /\ lineno = 0
    /\ message_context = "None"
    /\ contexts = <<>>
    /\ errors = <<>>
    /\ result = <<>>
    /\ printed = <<>>
    /\ exit_code = -1

\* MessageValidator.validate: one turn of "for lineno, line in enumerate(lines)"
validate_check_line ==
    /\ pc = "validate"
    /\ lineno < Len(lines)
    /\ LET r == check_line(Validator(validator_cls), message_context, lineno + 1,
                           lines[lineno + 1], lines)
       IN  /\ pc' = IF r.raised THEN "raised" ELSE "validate"
           /\ message_context' = r.context
           /\ contexts' = IF r.raised THEN contexts ELSE Append(contexts, r.context)
           /\ errors' = errors \o r.failures
    /\ lineno' = lineno + 1
    /\ UNCHANGED <<validator_cls, lines, matches, result, printed, exit_code>>

\* MessageValidator.validate: check_global after the last line; list(...) is complete
validate_check_global ==
    /\ pc = "validate"
    /\ lineno = Len(lines)
    /\ LET r == check_global(Validator(validator_cls), lines)
       IN  /\ pc' = IF r.raised THEN "raised" ELSE "sort"
           /\ errors' = errors \o r.failures
    /\ UNCHANGED <<validator_cls, lines, matches, lineno, message_context, contexts, result, printed,
                   exit_code>>

\* lint_message: the two sorts, and the return
lint_message ==
    /\ pc = "sort"
    /\ result' = lint_message_sort(errors)
    /\ pc' = "report"
    /\ UNCHANGED <<validator_cls, lines, matches, lineno, message_context, contexts, errors, printed,
                   exit_code>>

NoMessage == [text |-> "", name |-> <<>>, other |-> <<>>, num |-> 0]

\* what check_message prints for the errors, and what it returns
check_message_print(errs) ==
    IF Len(errs) > 0
    THEN <<[text |-> "The following errors were found:", lineno |-> 0, message |-> NoMessage]>>
         \o [k \in 1..Len(errs) |->
                [text |-> "- Line {lineno}: {message}", lineno |-> errs[k].lineno,
                 message |-> errs[k].message]]
    ELSE <<[text |-> "Commit message is formatted properly! Keep up the good work!",
            lineno |-> 0, message |-> NoMessage]>>

\* check_message returning 0 whatever it found
check_message_return_zero(errs) == 0

check_message_return(errs) == IF Len(errs) > 0 THEN 1 ELSE 0

check_message ==
    /\ pc = "report"
    /\ printed' = check_message_print(result)
    /\ exit_code' = check_message_return(result)
    /\ pc' = "done"
    /\ UNCHANGED <<validator_cls, lines, matches, lineno, message_context, contexts, errors, result>>

Next ==
    \/ validate_check_line
    \/ validate_check_global
    \/ lint_message
    \/ check_message

Spec == Init /\ [][Next]_vars

(***************************************************************************)
(* Properties.                                                             *)
(***************************************************************************)
Gerrit == validator_cls = "GerritMessageValidator"

GitLab == validator_cls = "GitLabMessageValidator"

GitHub == validator_cls = "GitHubMessageValidator"

\* check_message has returned
Done == pc = "done"

\* the number of failures of a rule in what lint_message returned
CountOf(id) == Cardinality({k \in 1..Len(result) : result[k].rule_id = id})

\* a <= b for two rule identifiers
RuleIdLeq(a, b) == a = b \/ RuleIdLess(a, b)

\* the failures check_message printed: the lines after the first
PrintedErrors == [k \in 1..(Len(printed) - 1) |-> printed[k + 1]]

\* C1, as stated: the list lint_message returns is sorted by rule identifier, and by
\* line number among the failures of one rule.
C1_SortedByRuleIdThenLine ==
    Done =>
        \A k \in 1..(Len(result) - 1) :
            \/ RuleIdLess(result[k].rule_id, result[k + 1].rule_id)
            \/ /\ result[k].rule_id = result[k + 1].rule_id
               /\ result[k].lineno <= result[k + 1].lineno

\* C1, amended: the list lint_message returns is sorted by line number, and by rule
\* identifier among the failures of one line; check_message prints it in that order.
C1_SortedByLineThenRuleId ==
    pc \in {"report", "done"} =>
        /\ \A k \in 1..(Len(result) - 1) :
               \/ result[k].lineno < result[k + 1].lineno
               \/ /\ result[k].lineno = result[k + 1].lineno
                  /\ RuleIdLeq(result[k].rule_id, result[k + 1].rule_id)
        /\ Done =>
               /\ Len(PrintedErrors) = Len(result)
               /\ \A k \in 1..Len(result) :
                      /\ PrintedErrors[k].lineno = result[k].lineno
                      /\ PrintedErrors[k].message = result[k].message

\* a returned list that the sort reordered and in which the two orders differ
C1_Witness ==
    /\ Done
    /\ result # errors
    /\ \E k \in 1..(Len(result) - 1) :
           /\ result[k].lineno < result[k + 1].lineno
           /\ RuleIdLess(result[k + 1].rule_id, result[k].rule_id)

\* C2: the contexts get_context returns for the lines 0, 1, 2, ... of a message are
\* SUBJECT for line 0 and for no other line, and TRAILER for every line after a line
\* for which TRAILER was returned.
C2_ContextShape ==
    /\ Len(contexts) = (IF pc = "validate" THEN lineno ELSE Len(contexts))
    /\ \A k \in 1..Len(contexts) :
           /\ contexts[k] \in {"SUBJECT", "BODY", "TRAILER"}
           /\ contexts[k] = "SUBJECT" <=> k = 1
           /\ k > 1 /\ contexts[k - 1] = "TRAILER" => contexts[k] = "TRAILER"

\* TRAILER kept for a line that is blank or prose
C2_Witness ==
    \E k \in 2..Len(contexts) :
        /\ contexts[k - 1] = "TRAILER"
        /\ contexts[k] = "TRAILER"
        /\ ~RE_TRAILER_match(lines[k])
        /\ ~RE_CHERRYPICK_match(lines[k])

\* line k (1-indexed) follows an empty line and is a trailer line with one of the
\* lowercased names, or the cherry-pick line
OpensTrailer(names, k) ==
    /\ lines[k - 1] = <<>>
    /\ \/ RE_TRAILER_match(lines[k]) /\ InList(group_name_lower(lines[k]), names)
       \/ RE_CHERRYPICK_match(lines[k])

\* C3, as stated: with any validator, a line after the subject that is reached before
\* TRAILER was entered is TRAILER if the line before it is empty and it is a trailer
\* line with an expected name or the cherry-pick line, and BODY otherwise.
C3_TrailerEntered ==
    \A k \in 2..Len(contexts) :
        contexts[k - 1] # "TRAILER" =>
            contexts[k] = (IF OpensTrailer(Validator(validator_cls).expected_trailers, k)
                           THEN "TRAILER" ELSE "BODY")

\* C3, amended: that holds for a validator with expected trailers (Gerrit, GitLab);
\* with no expected trailers (GitHub) every line after the subject is BODY, the
\* cherry-pick line after an empty line too.
C3_TrailerEnteredWhenExpected ==
    \A k \in 2..Len(contexts) :
        /\ ~GitHub /\ contexts[k - 1] # "TRAILER" =>
               contexts[k] = (IF OpensTrailer(NORMALIZED_EXPECTED_TRAILERS, k)
                              THEN "TRAILER" ELSE "BODY")
        /\ GitHub => contexts[k] = "BODY"

\* the cherry-pick line after an empty line: TRAILER with Gerrit, BODY with GitHub;
\* and a trailer line after a line that is not empty stayed BODY
C3_Witness ==
    /\ Gerrit
    /\ \E k \in 2..Len(contexts) :
           /\ RE_CHERRYPICK_match(lines[k])
           /\ contexts[k - 1] = "BODY"
           /\ contexts[k] = "TRAILER"
    /\ \E k \in 2..Len(contexts) :
           /\ RE_TRAILER_match(lines[k])
           /\ InList(group_name_lower(lines[k]), NORMALIZED_EXPECTED_TRAILERS)
           /\ lines[k - 1] # <<>>
           /\ contexts[k] = "BODY"

\* C4: with Gerrit, a trailer line after an empty line whose lowercased name is an
\* alias of Bug (closes, fixes, task) is TRAILER, as the Bug line is.
C4_AliasOpensTrailer ==
    Gerrit =>
        \A k \in 2..Len(contexts) :
            /\ lines[k - 1] = <<>>
            /\ RE_TRAILER_match(lines[k])
            /\ group_name_lower(lines[k]) \in DOMAIN BAD_TRAILERS
            => contexts[k] = "TRAILER"

\* C5: check_message returns 1 if validate yielded a failure and 0 if it yielded
\* none, and prints every failure validate yielded, each as often as it was yielded.
C5_ExitCodeAndPrinted ==
    /\ ~Done => exit_code = -1
    /\ Done =>
           /\ exit_code = (IF Len(errors) > 0 THEN 1 ELSE 0)
           /\ Len(PrintedErrors) = Len(errors)
           /\ \A e \in {errors[k] : k \in 1..Len(errors)} :
                  Cardinality({k \in 1..Len(errors) : errors[k] = e})
                      = Cardinality({k \in 1..Len(PrintedErrors) :
                                        /\ PrintedErrors[k].lineno = e.lineno
                                        /\ PrintedErrors[k].message = e.message})

\* a message with several failures, reported
C5_Witness == Done /\ exit_code = 1 /\ Len(errors) >= 3 /\ Len(printed) = Len(errors) + 1

\* a trailer line named Change-Id, in any case
IsChangeIdLine(line) ==
    RE_TRAILER_match(line) /\ group_name_lower(line) = <<"c", "h", "a", "n", "g", "e", "-", "i", "d">>

\* C6: with Gerrit, a message without failures has exactly one Change-Id line, and
\* that line is in the trailer.
C6_ChangeIdInTrailer ==
    Done /\ Gerrit /\ Len(result) = 0 =>
        /\ Cardinality({k \in 1..Len(lines) : IsChangeIdLine(lines[k])}) = 1
        /\ \A k \in 1..Len(lines) : IsChangeIdLine(lines[k]) => contexts[k] = "TRAILER"

\* a trailer line as the rules want it: an expected name as it is spelled, one space,
\* and a task id for Bug, a change id for Depends-On, Needed-By and Change-Id
IsWellFormedTrailer(line) ==
    /\ RE_TRAILER_match(line)
    /\ InList(group_name(line), EXPECTED_TRAILERS)
    /\ group_ws(line) = <<" ">>
    /\ group_name(line) = <<"B", "u", "g">> => RE_BUGID_match(line)
    /\ group_name_lower(line) \in
           {<<"d", "e", "p", "e", "n", "d", "s", "-", "o", "n">>,
            <<"n", "e", "e", "d", "e", "d", "-", "b", "y">>,
            <<"c", "h", "a", "n", "g", "e", "-", "i", "d">>} => RE_CHANGEID_match(line)

\* the message C7 describes but for its subject: an empty second line, body lines,
\* an empty line, then well-formed trailer lines, Change-Id once, as the last line
IsWellFormedAfterSubject(ls) ==
    /\ Len(ls) >= 3
    /\ ls[2] = <<>>
    /\ \E sep \in 2..(Len(ls) - 1) :
           /\ ls[sep] = <<>>
           /\ \A k \in 3..(sep - 1) :
                  /\ Len(ls[k]) <= BodyMaxLength_max_len
                  /\ ~RE_TRAILER_match(ls[k])
                  /\ ~RE_CHERRYPICK_match(ls[k])
           /\ \A k \in (sep + 1)..Len(ls) : IsWellFormedTrailer(ls[k])
           /\ \A k \in (sep + 1)..Len(ls) : IsChangeIdLine(ls[k]) <=> k = Len(ls)

\* the subject C7 describes
IsWellFormedSubject(line) ==
    /\ Len(line) <= SubjectMaxLength_max_len
    /\ ~RE_SUBJECT_BUG_OR_TASK_search(line)

\* C7, as stated: with Gerrit, a well-formed message has no failures and check_message
\* returns 0.
C7_WellFormedAccepted ==
    Done /\ Gerrit /\ IsWellFormedAfterSubject(lines) /\ IsWellFormedSubject(lines[1]) =>
        result = <<>> /\ exit_code = 0

\* C7, amended: that holds when the subject is neither a trailer line nor the
\* cherry-pick line.
C7_WellFormedAcceptedPlainSubject ==
    /\ Done
    /\ Gerrit
    /\ IsWellFormedAfterSubject(lines)
    /\ IsWellFormedSubject(lines[1])
    /\ ~RE_TRAILER_match(lines[1])
    /\ ~RE_CHERRYPICK_match(lines[1])
    => result = <<>> /\ exit_code = 0

\* a well-formed message with a body, a Bug line and the Change-Id line, accepted
C7_Witness ==
    /\ Done
    /\ Gerrit
    /\ Len(lines) >= 6
    /\ IsWellFormedSubject(lines[1])
    /\ ~RE_TRAILER_match(lines[1])
    /\ ~RE_CHERRYPICK_match(lines[1])
    /\ IsWellFormedAfterSubject(lines)
    /\ lines[3] # <<>>
    /\ \E k \in 1..Len(lines) : group_name(lines[k]) = <<"B", "u", "g">>
    /\ exit_code = 0

\* C8: validate never raises, whatever the message and the validator.
C8_NeverRaises == pc # "raised"

\* messages of no line, one line and two lines run to the end
C8_Witness == Done /\ Len(lines) = 1 /\ Len(errors) >= 2

\* C9, as stated: with every validator the result has the failure C2 if the message
\* has fewer than 3 lines and not otherwise; its line number is the number of lines.
C9_MinLinesEveryValidator ==
    Done =>
        /\ CountOf("C2") >= 1 <=> Len(lines) < CommitMinLines_min
        /\ \A k \in 1..Len(result) : result[k].rule_id = "C2" => result[k].lineno = Len(lines)

\* C9, amended: that holds with Gerrit, where the failure is there once; with GitLab
\* and GitHub the result never has the failure C2.
C9_MinLinesGerrit ==
    Done =>
        /\ Gerrit => CountOf("C2") = (IF Len(lines) < CommitMinLines_min THEN 1 ELSE 0)
        /\ ~Gerrit => CountOf("C2") = 0
        /\ \A k \in 1..Len(result) : result[k].rule_id = "C2" => result[k].lineno = Len(lines)

\* a message of two lines, with Gerrit
C9_Witness ==
    /\ Done
    /\ Gerrit
    /\ Len(lines) = 2
    /\ \E k \in 1..Len(result) : result[k].rule_id = "C2" /\ result[k].lineno = 2

\* C10: with every validator the result has the failure C1 once, at line 2, if the
\* message has a second line that is not empty, and not at all otherwise.
C10_SecondLineEmpty ==
    Done =>
        /\ CountOf("C1") = (IF Len(lines) >= 2 /\ lines[2] # <<>> THEN 1 ELSE 0)
        /\ \A k \in 1..Len(result) : result[k].rule_id = "C1" => result[k].lineno = 2

\* a second line that is not empty, after an empty subject
C10_Witness ==
    /\ Done
    /\ Len(lines) >= 2
    /\ lines[1] = <<>>
    /\ lines[2] # <<>>
    /\ CountOf("C1") = 1

\* the 1-indexed numbers of the Change-Id lines of the message
ChangeIdLines == {k \in 1..Len(lines) : IsChangeIdLine(lines[k])}

\* the first Change-Id line, 0 if there is none
FirstChangeId ==
    IF ChangeIdLines = {} THEN 0
    ELSE CHOOSE k \in ChangeIdLines : \A j \in ChangeIdLines : k <= j

\* the failures of a rule at a line in what lint_message returned
FailuresAt(id, n) == {k \in 1..Len(result) : result[k].rule_id = id /\ result[k].lineno = n}

\* C11: with Gerrit (the validator that has ChangeIdRequired), the first line whose
\* trailer name lowercases to change-id yields no C4, every later such line yields
\* exactly one C4 at its own line number, whose message names the line number of the
\* first one, and no other line yields C4.
C11_ExtraChangeId ==
    Done /\ Gerrit =>
        \A n \in 0..Len(lines) :
            IF n \in ChangeIdLines /\ n # FirstChangeId
            THEN /\ Cardinality(FailuresAt("C4", n)) = 1
                 /\ \A k \in FailuresAt("C4", n) :
                        /\ result[k].message.text = "Extra Change-Id found, first at {changeid}"
                        /\ result[k].message.num = FirstChangeId
            ELSE FailuresAt("C4", n) = {}

\* two extra Change-Id lines after a first one that is not line 1
C11_Witness ==
    /\ Done /\ Gerrit
    /\ FirstChangeId >= 2
    /\ CountOf("C4") >= 2
    /\ \E k \in 1..Len(result) : result[k].rule_id = "C4" /\ result[k].lineno > FirstChangeId + 1

\* C12: with Gerrit, C6 "Expected Change-Id" is reported if and only if no line of the
\* message is a Change-Id trailer line, then exactly once and at the number of lines;
\* the empty message yields C2 and C6, both at 0.
C12_MissingChangeId ==
    Done /\ Gerrit =>
        /\ CountOf("C6") = (IF ChangeIdLines = {} THEN 1 ELSE 0)
        /\ \A k \in 1..Len(result) :
               result[k].rule_id = "C6" =>
                   /\ result[k].lineno = Len(lines)
                   /\ result[k].message.text = "Expected Change-Id"
        /\ Len(lines) = 0 =>
               /\ Cardinality(FailuresAt("C2", 0)) = 1
               /\ Cardinality(FailuresAt("C6", 0)) = 1

\* a message of three lines or more without a Change-Id line: C6 at its last line
C12_Witness ==
    /\ Done /\ Gerrit
    /\ Len(lines) >= 3
    /\ ChangeIdLines = {}
    /\ Cardinality(FailuresAt("C6", Len(lines))) = 1
    /\ CountOf("C2") = 0

\* a trailer line whose lowercased name is one of the names
IsTrailerNamed(names, line) == RE_TRAILER_match(line) /\ InList(group_name_lower(line), names)

\* line n comes after the first Change-Id line
AfterChangeId(n) == FirstChangeId # 0 /\ FirstChangeId < n

\* the lines of C5: the trailer lines with one of the names, each yields exactly one C5
\* naming the first Change-Id line if it comes after that line, and none otherwise
OrderedBefore(names) ==
    \A n \in 1..Len(lines) :
        IsTrailerNamed(names, lines[n]) =>
            IF AfterChangeId(n)
            THEN /\ Cardinality(FailuresAt("C5", n)) = 1
                 /\ \A k \in FailuresAt("C5", n) :
                        /\ result[k].message.name = group_name(lines[n])
                        /\ result[k].message.num = FirstChangeId
            ELSE FailuresAt("C5", n) = {}

DependsOn == <<"d", "e", "p", "e", "n", "d", "s", "-", "o", "n">>

\* C13, as stated: with Gerrit, every Bug, Closes, Fixes, Task or Depends-On trailer
\* line after the first Change-Id line yields one C5 at its own line that names the
\* Change-Id line, and such a line before the Change-Id line yields none.
C13_BugAndDependsOnBefore ==
    Done /\ Gerrit => OrderedBefore(BEFORE_CHANGE_ID \o <<DependsOn>>)

\* C13, amended: with Gerrit, every Bug, Closes, Fixes or Task trailer line after the
\* first Change-Id line yields one C5 at its own line that names the Change-Id line,
\* such a line before the Change-Id line yields none, and no other line, a Depends-On
\* line after the Change-Id line included, yields C5.
C13_BugBefore ==
    Done /\ Gerrit =>
        /\ OrderedBefore(BEFORE_CHANGE_ID)
        /\ \A n \in 0..Len(lines) :
               FailuresAt("C5", n) # {} => IsTrailerNamed(BEFORE_CHANGE_ID, lines[n])

\* an alias of Bug after the Change-Id line, reported
C13_Witness ==
    /\ Done /\ Gerrit
    /\ \E n \in 1..Len(lines) :
           /\ AfterChangeId(n)
           /\ group_name_lower(lines[n]) = <<"f", "i", "x", "e", "s">>
           /\ FailuresAt("C5", n) # {}

\* the failures of a list whose rule is not one of ids, in the order of the list
Without(failures, ids) == SelectSeq(failures, LAMBDA e : e.rule_id \notin ids)

\* what lint_message returns for the message of this run with GitLabMessageValidator
GitLabErrors == lint_message_errors(Validator("GitLabMessageValidator"), lines)

\* C14, as stated: for every message, what GerritMessageValidator reports is what
\* GitLabMessageValidator reports plus the failures of ChangeIdRequired (C4 extra
\* Change-Id, C5 order, C6 missing Change-Id), and nothing else.
C14_GitLabIsGerritWithoutChangeIdRequired ==
    Done /\ Gerrit => Without(result, {"C4", "C5", "C6"}) = GitLabErrors

\* C14, amended: for every message, what GerritMessageValidator reports is what
\* GitLabMessageValidator reports plus the failures of ChangeIdRequired (C4, C5, C6),
\* of CommitMinLines (C2) and of ChangeIdExpected (F7), and nothing else; a run with
\* GitLabMessageValidator returns that list.
C14_GitLabIsGerritWithoutThreeRules ==
    /\ Done /\ Gerrit => Without(result, {"C2", "C4", "C5", "C6", "F7"}) = GitLabErrors
    /\ Done /\ GitLab => result = GitLabErrors

\* a message for which both validators report failures, and Gerrit the value of a
\* Change-Id line as well
C14_Witness ==
    /\ Done /\ Gerrit
    /\ CountOf("F7") >= 1
    /\ Len(GitLabErrors) >= 1
    /\ Len(GitLabErrors) < Len(result)

\* C15: with GitHubMessageValidator, whose expected trailers are empty, get_context
\* never returns TRAILER: it returns SUBJECT for line 0 and BODY for every other line,
\* also for a "Name: value" line or a cherry-pick line that follows an empty line.
C15_NoTrailerWithoutExpected ==
    GitHub =>
        /\ message_context # "TRAILER"
        /\ \A k \in 1..Len(contexts) : contexts[k] = (IF k = 1 THEN "SUBJECT" ELSE "BODY")

\* a trailer line and a cherry-pick line, each after an empty line, classified BODY
C15_Witness ==
    /\ GitHub /\ Done
    /\ \E k \in 2..Len(lines) :
           /\ lines[k - 1] = <<>>
           /\ RE_TRAILER_match(lines[k])
           /\ contexts[k] = "BODY"
    /\ \E k \in 2..Len(lines) :
           /\ lines[k - 1] = <<>>
           /\ RE_CHERRYPICK_match(lines[k])
           /\ contexts[k] = "BODY"

\* the rule list in the order p, a permutation of its indexes
Permute(rules, p) == [k \in 1..Len(rules) |-> rules[p[k]]]

\* every permutation of 1..n, for a short list
AllOrders(n) == {p \in [1..n -> 1..n] : \A i, j \in 1..n : p[i] = p[j] => i = j}

Identity(n) == [k \in 1..n |-> k]

Reversal(n) == [k \in 1..n |-> n + 1 - k]

\* the exchanges of two neighbours, which generate every permutation of 1..n
Exchanges(n) ==
    {[k \in 1..n |-> IF k = i THEN i + 1 ELSE IF k = i + 1 THEN i ELSE k] : i \in 1..(n - 1)}

Rotations(n) == {[k \in 1..n |-> ((k + d - 1) % n) + 1] : d \in 0..(n - 1)}

\* the orders a rule list of length n is tried in: all of them for four rules or less,
\* for a longer list the exchanges, the rotations and the reversal
MaxPermuted == 4

Orders(n) ==
    IF n <= MaxPermuted THEN AllOrders(n)
    ELSE Exchanges(n) \cup Rotations(n) \cup {Reversal(n)}

\* the validator with its line rules in the order p and its commit rules in the order q
Reordered(v, p, q) ==
    [v EXCEPT !.line_rules = Permute(v.line_rules, p),
              !.commit_rules = Permute(v.commit_rules, q)]

\* the messages the rule lists are reordered for: the short ones and the scenarios
MaxOrderLines == 2

OrderChecked == Len(lines) <= MaxOrderLines \/ lines \in Scenarios

\* C16: for every validator and every message (of MaxOrderLines lines at most, or a
\* scenario), lint_message returns the same list for every order of the line rules and
\* every order of the commit rules (a list of more than MaxPermuted rules is tried in
\* the orders that generate the others); and for every message no two failures have
\* the same line number and rule identifier, so that the two sorts leave nothing of the
\* order the rules were evaluated in.
C16_RuleOrderIrrelevant ==
    Done =>
        LET v == Validator(validator_cls)
            n == Len(v.line_rules)
            m == Len(v.commit_rules)
        IN  /\ OrderChecked =>
                   /\ \A p \in Orders(n) :
                          lint_message_errors(Reordered(v, p, Identity(m)), lines) = result
                   /\ \A q \in Orders(m) :
                          lint_message_errors(Reordered(v, Identity(n), q), lines) = result
            /\ lint_message_errors(Reordered(v, Reversal(n), Reversal(m)), lines) = result
            /\ \A j, k \in 1..Len(result) :
                   result[j].lineno = result[k].lineno /\ result[j].rule_id = result[k].rule_id
                       => j = k

\* a message for which the rules in reversed order yield their failures in another
\* order, two of them at one line
C16_Witness ==
    /\ Done /\ OrderChecked
    /\ LET v == Validator(validator_cls)
       IN  validate(Reordered(v, Reversal(Len(v.line_rules)), Reversal(Len(v.commit_rules))),
                    "None", lines).failures # errors
    /\ \E k \in 1..(Len(result) - 1) : result[k].lineno = result[k + 1].lineno

HasCherryPickLast ==
    \E k \in 1..Len(Validator(validator_cls).commit_rules) :
        Validator(validator_cls).commit_rules[k].rule = "CherryPickLast"

\* C18: with a validator that has CherryPickLast, every line that matches the
\* cherry-pick expression and is not the last line of the message yields exactly one C3
\* at its line number, whatever its context, and no other line yields C3, the last line
\* in particular.
C18_CherryPickNotLast ==
    Done /\ HasCherryPickLast =>
        \A n \in 0..Len(lines) :
            Cardinality(FailuresAt("C3", n)) =
                (IF n >= 1 /\ n < Len(lines) /\ RE_CHERRYPICK_match(lines[n]) THEN 1 ELSE 0)

\* cherry-pick lines as the subject, in the body and in the trailer, reported, and one
\* as the last line, not reported
C18_Witness ==
    /\ Done /\ HasCherryPickLast
    /\ Len(lines) >= 3
    /\ RE_CHERRYPICK_match(lines[Len(lines)])
    /\ FailuresAt("C3", Len(lines)) = {}
    /\ \E n \in 1..(Len(lines) - 1) :
           /\ RE_CHERRYPICK_match(lines[n])
           /\ contexts[n] \in {"SUBJECT", "BODY"}
           /\ FailuresAt("C3", n) # {}

\* a cherry-pick line in the trailer that is not the last line, reported
C18_WitnessTrailer ==
    /\ Done /\ HasCherryPickLast
    /\ \E n \in 1..(Len(lines) - 1) :
           /\ RE_CHERRYPICK_match(lines[n])
           /\ contexts[n] = "TRAILER"
           /\ FailuresAt("C3", n) # {}

\* the line without the angle bracket it may start with
Unbracketed(line) == IF Len(line) > 0 /\ line[1] = "<" THEN Tail(line) ELSE line

\* a line that is a URL and nothing else: http:// or https:// in any case and at
\* least one character, no white space, in angle brackets or not
IsBareUrl(line) ==
    LET u == Unbracketed(line)
        rest == IF StartsWith(Lower(u), <<"h", "t", "t", "p", "s", ":", "/", "/">>)
                THEN SubSeq(u, 9, Len(u))
                ELSE IF StartsWith(Lower(u), <<"h", "t", "t", "p", ":", "/", "/">>)
                THEN SubSeq(u, 8, Len(u))
                ELSE <<>>
    IN  /\ Len(rest) > 0
        /\ \A k \in 1..Len(rest) : ~IsSpace(rest[k])

\* C19: for every validator, a line in BODY context yields exactly one B1 if it is
\* longer than 100 characters and not a bare URL, and none if it has 100 characters at
\* most or is a bare URL; a line in SUBJECT or TRAILER context yields no B1.  The
\* message of B1 names the length of the line.
C19_BodyMaxLength ==
    Done =>
        /\ FailuresAt("B1", 0) = {}
        /\ \A n \in 1..Len(lines) :
               IF /\ contexts[n] = "BODY"
                  /\ Len(lines[n]) > 100
                  /\ ~IsBareUrl(lines[n])
               THEN /\ Cardinality(FailuresAt("B1", n)) = 1
                    /\ \A k \in FailuresAt("B1", n) : result[k].message.num = Len(lines[n])
               ELSE FailuresAt("B1", n) = {}

\* a body with a line of 100 characters and two URLs of more, not reported, and a line
\* of 101 characters, reported
C19_Witness ==
    /\ Done
    /\ \E n \in 1..Len(lines) :
           contexts[n] = "BODY" /\ Len(lines[n]) = 101 /\ FailuresAt("B1", n) # {}

\* long lines that are not reported: a URL, a URL in angle brackets
C19_WitnessUrl ==
    /\ Done
    /\ \E n, m \in 1..Len(lines) :
           /\ contexts[n] = "BODY" /\ contexts[m] = "BODY"
           /\ Len(lines[n]) > 100 /\ Len(lines[m]) > 100
           /\ lines[n][1] = "<" /\ lines[m][1] # "<"
           /\ IsBareUrl(lines[n]) /\ IsBareUrl(lines[m])
           /\ CountOf("B1") = 0

\* a line of 100 characters in the body, not reported, next to one of 101, reported
C19_WitnessFullLine ==
    /\ Done
    /\ \E n \in 1..Len(lines) :
           contexts[n] = "BODY" /\ Len(lines[n]) = 100 /\ FailuresAt("B1", n) = {}
    /\ CountOf("B1") = 1

\* a long line that is not reported: a line of the trailer
C19_WitnessOtherContext ==
    /\ Done
    /\ \E n \in 2..Len(lines) : contexts[n] = "TRAILER" /\ Len(lines[n]) > 100
    /\ CountOf("B1") = 0

\* the validator of this run has TrailerInBody among its line rules
HasTrailerInBody ==
    \E k \in 1..Len(Validator(validator_cls).line_rules) :
        Validator(validator_cls).line_rules[k].rule = "TrailerInBody"

\* a lowercased name that is an expected trailer name, or an alias BAD_TRAILERS maps to
\* an expected trailer name
IsRecognizedName(normalized) ==
    \/ InList(normalized, NORMALIZED_EXPECTED_TRAILERS)
    \/ /\ normalized \in DOMAIN BAD_TRAILERS
       /\ InList(BAD_TRAILERS[normalized], NORMALIZED_EXPECTED_TRAILERS)

\* C20: with a validator that has TrailerInBody (Gerrit, GitLab), a line yields F2
\* "Expected 'Name:' to be in trailer", once and with its name as it is written, if and
\* only if its context is BODY, it matches the trailer expression and its lowercased
\* name is an expected trailer name or an alias of one; a line in SUBJECT or TRAILER
\* context and a body line with another name yield no F2.
C20_TrailerInBody ==
    Done /\ HasTrailerInBody =>
        /\ FailuresAt("F2", 0) = {}
        /\ \A n \in 1..Len(lines) :
               IF /\ contexts[n] = "BODY"
                  /\ RE_TRAILER_match(lines[n])
                  /\ IsRecognizedName(group_name_lower(lines[n]))
               THEN /\ Cardinality(FailuresAt("F2", n)) = 1
                    /\ \A k \in FailuresAt("F2", n) :
                           result[k].message.name = group_name(lines[n])
               ELSE FailuresAt("F2", n) = {}

\* an alias in the body, reported, and a trailer line with an unknown name in the body,
\* not reported
C20_Witness ==
    /\ Done /\ HasTrailerInBody
    /\ \E n \in 1..Len(lines) :
           /\ contexts[n] = "BODY"
           /\ group_name_lower(lines[n]) = <<"f", "i", "x", "e", "s">>
           /\ FailuresAt("F2", n) # {}
    /\ \E n \in 1..Len(lines) :
           /\ contexts[n] = "BODY"
           /\ RE_TRAILER_match(lines[n])
           /\ ~IsRecognizedName(group_name_lower(lines[n]))
           /\ FailuresAt("F2", n) = {}

\* expected trailer lines as the subject and in the trailer, not reported
C20_WitnessOtherContext ==
    /\ Done /\ HasTrailerInBody
    /\ CountOf("F2") = 0
    /\ \E n, m \in 1..Len(lines) :
           /\ contexts[n] = "SUBJECT" /\ contexts[m] = "TRAILER"
           /\ RE_TRAILER_match(lines[n]) /\ RE_TRAILER_match(lines[m])
           /\ IsRecognizedName(group_name_lower(lines[n]))
           /\ IsRecognizedName(group_name_lower(lines[m]))

\* the validator of this run has the line rule among its line rules
HasLineRule(rule) ==
    \E k \in 1..Len(Validator(validator_cls).line_rules) :
        Validator(validator_cls).line_rules[k].rule = rule

\* the lowercased name of a trailer line after the mapping of BAD_TRAILERS
FixedUpName(line) ==
    IF group_name_lower(line) \in DOMAIN BAD_TRAILERS
    THEN BAD_TRAILERS[group_name_lower(line)]
    ELSE group_name_lower(line)

\* a trailer line whose fixed-up name is an expected trailer name
IsExpectedTrailerLine(line) ==
    RE_TRAILER_match(line) /\ InList(FixedUpName(line), NORMALIZED_EXPECTED_TRAILERS)

\* C21: with a validator that has ExpectedTrailers (Gerrit, GitLab), a line that matches
\* the trailer expression and whose fixed-up lowercased name is no expected trailer
\* name yields F3 "Unexpected trailer", once and with its name as written, if and only
\* if its context is TRAILER; in SUBJECT or BODY context it yields no F3, no F4 and no
\* F5.  A line that is no such line yields no F3.
C21_UnexpectedTrailerInTrailerOnly ==
    Done /\ HasLineRule("ExpectedTrailers") =>
        \A n \in 1..Len(lines) :
            IF RE_TRAILER_match(lines[n]) /\ ~IsExpectedTrailerLine(lines[n])
            THEN IF contexts[n] = "TRAILER"
                 THEN /\ Cardinality(FailuresAt("F3", n)) = 1
                      /\ \A k \in FailuresAt("F3", n) :
                             result[k].message.name = group_name(lines[n])
                 ELSE /\ FailuresAt("F3", n) = {}
                      /\ FailuresAt("F4", n) = {}
                      /\ FailuresAt("F5", n) = {}
            ELSE FailuresAt("F3", n) = {}

\* an unknown name with two spaces after the colon: nothing in the body, F3 in the
\* trailer
C21_Witness ==
    /\ Done /\ HasLineRule("ExpectedTrailers")
    /\ \E n, m \in 1..Len(lines) :
           /\ lines[n] = lines[m]
           /\ RE_TRAILER_match(lines[n]) /\ ~IsExpectedTrailerLine(lines[n])
           /\ group_ws(lines[n]) # <<" ">>
           /\ contexts[n] = "BODY" /\ contexts[m] = "TRAILER"
           /\ FailuresAt("F3", n) = {} /\ FailuresAt("F5", n) = {}
           /\ FailuresAt("F3", m) # {}

\* the spelling EXPECTED_TRAILERS has for a lowercased name
CanonicalName(normalized) ==
    EXPECTED_TRAILERS[CHOOSE k \in 1..Len(EXPECTED_TRAILERS) :
                          Lower(EXPECTED_TRAILERS[k]) = normalized]

\* C22: with a validator that has ExpectedTrailers, a trailer line whose fixed-up
\* lowercased name is an expected name yields F4 "Use 'Canonical:' not 'Given:'", once,
\* if and only if its name as written differs from the spelling of EXPECTED_TRAILERS,
\* in every context; the message shows the spelling of the fixed-up name (Bug for
\* Closes, Fixes and Task) and the name exactly as it is written.  No other line
\* yields F4.
C22_UseCanonicalName ==
    Done /\ HasLineRule("ExpectedTrailers") =>
        \A n \in 1..Len(lines) :
            IF /\ IsExpectedTrailerLine(lines[n])
               /\ group_name(lines[n]) # CanonicalName(FixedUpName(lines[n]))
            THEN /\ Cardinality(FailuresAt("F4", n)) = 1
                 /\ \A k \in FailuresAt("F4", n) :
                        /\ result[k].message.name = group_name(lines[n])
                        /\ result[k].message.other = CanonicalName(FixedUpName(lines[n]))
                        /\ group_name_lower(lines[n]) \in DOMAIN BAD_TRAILERS
                               => result[k].message.other = <<"B", "u", "g">>
            ELSE FailuresAt("F4", n) = {}

\* an alias written in upper case, reported with that spelling and with Bug, next to a
\* Bug line, not reported
C22_Witness ==
    /\ Done /\ HasLineRule("ExpectedTrailers")
    /\ \E k \in 1..Len(result) :
           /\ result[k].rule_id = "F4"
           /\ result[k].message.name = <<"F", "I", "X", "E", "S">>
           /\ result[k].message.other = <<"B", "u", "g">>
    /\ \E n \in 1..Len(lines) :
           group_name(lines[n]) = <<"B", "u", "g">> /\ FailuresAt("F4", n) = {}

\* C23: with a validator that has TrailerNoBlankLines and UnexpectedTrailerLine
\* (Gerrit, GitLab), a line in TRAILER context that matches neither the trailer
\* expression nor the cherry-pick expression yields exactly one failure for its shape:
\* F1 and no F8 if it is empty, F8 and no F1 if it is not; a TRAILER line that matches
\* one of the two and every line in SUBJECT or BODY context yield neither.
C23_TrailerLineShape ==
    Done /\ HasLineRule("TrailerNoBlankLines") /\ HasLineRule("UnexpectedTrailerLine") =>
        \A n \in 1..Len(lines) :
            LET shapeless == /\ contexts[n] = "TRAILER"
                             /\ ~RE_TRAILER_match(lines[n])
                             /\ ~RE_CHERRYPICK_match(lines[n])
            IN  /\ Cardinality(FailuresAt("F1", n)) =
                       (IF shapeless /\ lines[n] = <<>> THEN 1 ELSE 0)
                /\ Cardinality(FailuresAt("F8", n)) =
                       (IF shapeless /\ lines[n] # <<>> THEN 1 ELSE 0)

\* a trailer with an empty line, reported F1, and a line of prose, reported F8
C23_Witness ==
    /\ Done /\ HasLineRule("UnexpectedTrailerLine")
    /\ \E n, m \in 1..Len(lines) :
           /\ contexts[n] = "TRAILER" /\ lines[n] = <<>>
           /\ FailuresAt("F1", n) # {} /\ FailuresAt("F8", n) = {}
           /\ contexts[m] = "TRAILER" /\ lines[m] # <<>>
           /\ FailuresAt("F8", m) # {} /\ FailuresAt("F1", m) = {}

\* a T and one decimal digit or more, nothing else
IsTaskId(value) ==
    /\ Len(value) >= 2
    /\ value[1] = "T"
    /\ \A k \in 2..Len(value) : IsDigit(value[k])

\* C24: with a validator that has PhabricatorTaskIdExpected (Gerrit, GitLab), a trailer
\* line whose fixed-up lowercased name is bug (Bug, Closes, Fixes, Task in any case)
\* yields F6, once, if and only if its value is not a T and decimal digits, in every
\* context; a line with another name and a line that is no trailer line yield no F6.
C24_TaskIdExpected ==
    Done /\ HasLineRule("PhabricatorTaskIdExpected") =>
        \A n \in 1..Len(lines) :
            Cardinality(FailuresAt("F6", n)) =
                (IF /\ RE_TRAILER_match(lines[n])
                    /\ FixedUpName(lines[n]) = <<"b", "u", "g">>
                    /\ ~IsTaskId(group_value(lines[n]))
                 THEN 1 ELSE 0)

\* values that are no task id, reported for Bug as the subject and for an alias in the
\* body and in the trailer, and a Bug line with a task id, not reported
C24_Witness ==
    /\ Done /\ HasLineRule("PhabricatorTaskIdExpected")
    /\ FailuresAt("F6", 1) # {}
    /\ \E n, m \in 2..Len(lines) :
           /\ contexts[n] = "BODY" /\ contexts[m] = "TRAILER"
           /\ group_name_lower(lines[n]) \in DOMAIN BAD_TRAILERS
           /\ group_name_lower(lines[m]) \in DOMAIN BAD_TRAILERS
           /\ FailuresAt("F6", n) # {} /\ FailuresAt("F6", m) # {}
    /\ \E n \in 1..Len(lines) :
           FixedUpName(lines[n]) = <<"b", "u", "g">> /\ FailuresAt("F6", n) = {}

\* C25: with GitHubMessageValidator, the subject yields GH1, once, if and only if it
\* holds a # followed by a digit; every other line yields GH2, once, if and only if it
\* starts with a closing keyword, whitespace and an owner/repo#digits reference; GH1 is
\* reported on no other line and GH2 never on the subject.
C25_GitHubRules ==
    Done /\ GitHub =>
        \A n \in 1..Len(lines) :
            /\ Cardinality(FailuresAt("GH1", n)) =
                   (IF n = 1 /\ RE_GH_BUG_NUMBER_search(lines[n]) THEN 1 ELSE 0)
            /\ Cardinality(FailuresAt("GH2", n)) =
                   (IF n > 1 /\ RE_GH_FOREIGN_CLOSE_search(lines[n]) THEN 1 ELSE 0)

\* a closing line of another repository as the subject, reported GH1 and not GH2, and
\* as a later line, reported GH2 and not GH1
C25_Witness ==
    /\ Done /\ GitHub /\ Len(lines) >= 2
    /\ RE_GH_FOREIGN_CLOSE_search(lines[1])
    /\ FailuresAt("GH1", 1) # {} /\ FailuresAt("GH2", 1) = {}
    /\ \E n \in 2..Len(lines) :
           /\ RE_GH_BUG_NUMBER_search(lines[n])
           /\ FailuresAt("GH2", n) # {} /\ FailuresAt("GH1", n) = {}

\* what the line rules of the validator yield for line n in the context the validator
\* got for it, rule after rule in the order of registration
LineFailures(n) ==
    LET line_rules == Validator(validator_cls).line_rules
    IN  Flatten([k \in 1..Len(line_rules) |->
                    LineRuleValidate(line_rules[k], n, lines[n], contexts[n])])

\* what the commit rules of the validator yield for the message, rule after rule
CommitFailures ==
    LET commit_rules == Validator(validator_cls).commit_rules
    IN  Flatten([k \in 1..Len(commit_rules) |->
                    CommitRuleValidate(commit_rules[k], lines).failures])

CommitRuleIds == {"C1", "C2", "C3", "C4", "C5", "C6"}

\* C28: while validate is at a line it has got one context for each line before and
\* has yielded, line after line, what each line rule yields for the line in its context;
\* when validate has ended it has yielded that for every line, followed by what each
\* commit rule yields for the message: nothing is dropped, doubled or kept back by
\* another failure, and no failure of a commit rule comes before one of a line rule.
C28_RawOutput ==
    /\ pc = "validate" =>
           /\ Len(contexts) = lineno
           /\ errors = Flatten([n \in 1..lineno |-> LineFailures(n)])
    /\ pc = "sort" =>
           /\ Len(contexts) = Len(lines)
           /\ errors = Flatten([n \in 1..Len(lines) |-> LineFailures(n)]) \o CommitFailures

\* validate has ended with two failures of two line rules for one line, a failure of a
\* line rule for a later line, and failures of two commit rules after them
C28_Witness ==
    /\ pc = "sort"
    /\ \E i, j, k, l, m \in 1..Len(errors) :
           /\ i < j /\ j < k /\ k < l /\ l < m
           /\ errors[i].lineno = errors[j].lineno
           /\ errors[i].rule_id # errors[j].rule_id
           /\ errors[j].lineno < errors[k].lineno
           /\ {errors[i].rule_id, errors[j].rule_id, errors[k].rule_id} \cap CommitRuleIds = {}
           /\ errors[l].rule_id \in CommitRuleIds /\ errors[m].rule_id \in CommitRuleIds
           /\ errors[l].rule_id # errors[m].rule_id

\* the _message_context a completed pass can leave in an instance of the validator:
\* None after the empty message, SUBJECT after one line, BODY, and TRAILER for a
\* validator that has expected trailers
LeftContexts ==
    IF Len(Validator(validator_cls).expected_trailers) = 0
    THEN {"None", "SUBJECT", "BODY"}
    ELSE {"None", "SUBJECT", "BODY", "TRAILER"}

\* C29: whatever context a completed pass has left in the instance, validating the
\* message of this run on that instance yields what the run, on an instance
\* constructed for it, has yielded: the same failures in the same order, and it raises
\* if and only if the run raised.
C29_NoStateLeak ==
    /\ pc = "sort" =>
           \A left \in LeftContexts :
               validate(Validator(validator_cls), left, lines) =
                   [raised |-> FALSE, failures |-> errors]
    /\ pc = "raised" =>
           \A left \in LeftContexts : validate(Validator(validator_cls), left, lines).raised

\* a pass that ended in TRAILER context, over a message with a body line and failures:
\* the instance it leaves is one the message is validated on again
C29_Witness ==
    /\ pc = "sort"
    /\ message_context = "TRAILER"
    /\ \E n \in 1..Len(contexts) : contexts[n] = "BODY"
    /\ errors # <<>>
    /\ validate(Validator(validator_cls), message_context, lines).failures = errors

\* a pass over the empty message leaves None
C29_WitnessNone == pc = "sort" /\ lines = <<>> /\ message_context = "None"

\* a pass over one line leaves SUBJECT, a pass that entered no trailer leaves BODY
C29_WitnessSubject == pc = "sort" /\ message_context = "SUBJECT"

C29_WitnessBody == pc = "sort" /\ Len(lines) = MaxLines /\ message_context = "BODY"

(***************************************************************************)
(* MessageValidator, the iterable base class of validators/abstract.py,    *)
(* with the subclasses of tests/test_message_validator.py.  validators/    *)
(* core.py has the same loop and the same try/except in validate.          *)
(***************************************************************************)
TestValidatorClasses ==
    {"NoCheckLineMessageValidator", "JustTestMessageValidator", "NoCheckGlobalMessageValidator"}

\* the lines of test_iterate_iterable_message_validator
TestLines == <<"This is a line", "2nd line", "3rd line", "4th line", "5th">>

\* the messages a validator is constructed with: the first lines of TestLines
TestMessages == {SubSeq(TestLines, 1, n) : n \in 0..Len(TestLines)}

NoException == [type |-> "None", text |-> "", name |-> ""]

NotImplementedError(text, name) == [type |-> "NotImplementedError", text |-> text, name |-> name]

\* what a call of a method gives: the strings it yields, or the exception it raises
Yields(failures) == [raised |-> FALSE, exception |-> NoException, failures |-> failures]

Raises(exception) == [raised |-> TRUE, exception |-> exception, failures |-> <<>>]

\* MessageValidator.check_line and check_global, for type(self).__name__ = name
MessageValidator_check_line(name, n) ==
    Raises(NotImplementedError("check_line() should be implemented in {}", name))

MessageValidator_check_global(name) ==
    Raises(NotImplementedError("check_global() isn't implemented in {}", name))

JustTestMessageValidator_check_line(n) ==
    IF n = 1 THEN Yields(<<"Error on line 2">>)
    ELSE IF n = 3 THEN Yields(<<"Error on line 4">>)
    ELSE Yields(<<>>)

JustTestMessageValidator_check_global == Yields(<<"From global check">>)

NoCheckGlobalMessageValidator_check_line(n) ==
    IF n = 1 THEN Yields(<<"Error on line 2">>)
    ELSE IF n = 3 THEN Yields(<<"Error on line 4">>)
    ELSE Yields(<<>>)

\* the methods a class defines itself
ImplementsCheckLine(cls) ==
    cls \in {"JustTestMessageValidator", "NoCheckGlobalMessageValidator"}

ImplementsCheckGlobal(cls) == cls = "JustTestMessageValidator"

\* self.check_line(n) and self.check_global() for an instance of cls
self_check_line(cls, n) ==
    IF cls = "JustTestMessageValidator" THEN JustTestMessageValidator_check_line(n)
    ELSE IF cls = "NoCheckGlobalMessageValidator" THEN NoCheckGlobalMessageValidator_check_line(n)
    ELSE MessageValidator_check_line(cls, n)

self_check_global(cls) ==
    IF cls = "JustTestMessageValidator" THEN JustTestMessageValidator_check_global
    ELSE MessageValidator_check_global(cls)

\* _check_generator, one turn of "for lineno in range(len(self._lines))"
check_generator_line(cls, n) ==
    LET r == self_check_line(cls, n)
    IN  [raised |-> r.raised, exception |-> r.exception,
         failures |-> [k \in 1..Len(r.failures) |-> <<n + 1, r.failures[k]>>]]

\* _check_generator that calls check_global outside a try statement
check_generator_global_unguarded(cls, message) ==
    LET r == self_check_global(cls)
    IN  [raised |-> r.raised, exception |-> r.exception,
         failures |-> [k \in 1..Len(r.failures) |-> <<Len(message), r.failures[k]>>]]

\* _check_generator, the try statement around check_global
check_generator_global(cls, message) ==
    LET r == self_check_global(cls)
    IN  IF r.raised /\ r.exception.type = "NotImplementedError"
        THEN Yields(<<>>)
        ELSE [raised |-> r.raised, exception |-> r.exception,
              failures |-> [k \in 1..Len(r.failures) |-> <<Len(message), r.failures[k]>>]]

\* cls(lines): nothing iterated, nothing called
InitMessageValidator ==
    /\ validator_cls \in TestValidatorClasses
    /\ lines \in TestMessages
    /\ pc = "new"
    /\ lineno = 0
    /\ errors = <<>>
    /\ result = Yields(<<>>)
    /\ matches = <<>>
    /\ message_context = "None"
    /\ contexts = <<>>
    /\ printed = <<>>
    /\ exit_code = -1

\* the iteration reaches the next line
iterate_check_line ==
    /\ pc \in {"new", "iterate"}
    /\ lineno < Len(lines)
    /\ LET r == check_generator_line(validator_cls, lineno)
       IN  /\ pc' = IF r.raised THEN "raised" ELSE "iterate"
           /\ errors' = errors \o r.failures
           /\ result' = r
    /\ lineno' = lineno + 1
    /\ UNCHANGED <<validator_cls, lines, matches, message_context, contexts, printed, exit_code>>

\* the iteration is past the last line: check_global, and the generator ends
iterate_check_global ==
    /\ pc \in {"new", "iterate"}
    /\ lineno = Len(lines)
    /\ LET r == check_generator_global(validator_cls, lines)
       IN  /\ pc' = IF r.raised THEN "raised" ELSE "exhausted"
           /\ errors' = errors \o r.failures
           /\ result' = r
    /\ UNCHANGED <<validator_cls, lines, matches, lineno, message_context, contexts, printed,
                   exit_code>>

\* check_line(n) called on the instance by its user
call_check_line ==
    /\ pc = "new"
    /\ \E n \in 0..(Len(lines) - 1) :
           /\ result' = self_check_line(validator_cls, n)
           /\ lineno' = n
    /\ pc' = "check_line"
    /\ UNCHANGED <<validator_cls, lines, matches, message_context, contexts, errors, printed,
                   exit_code>>

\* check_global() called on the instance by its user
call_check_global ==
    /\ pc = "new"
    /\ result' = self_check_global(validator_cls)
    /\ pc' = "check_global"
    /\ UNCHANGED <<validator_cls, lines, matches, lineno, message_context, contexts, errors,
                   printed, exit_code>>

NextMessageValidator ==
    \/ iterate_check_line
    \/ iterate_check_global
    \/ call_check_line
    \/ call_check_global

SpecMessageValidator == InitMessageValidator /\ [][NextMessageValidator]_vars

\* what the line checks of a class yield for the whole message, as _check_generator
\* numbers it
LineCheckFailures(cls, message) ==
    Flatten([k \in 1..Len(message) |->
                [j \in 1..Len(self_check_line(cls, k - 1).failures) |->
                    <<k, self_check_line(cls, k - 1).failures[j]>>]])

\* C26: a class that implements check_line and not check_global iterates to the end
\* without raising and has yielded exactly the failures of its line checks; a direct
\* call of check_line or check_global on a class that does not implement it raises
\* NotImplementedError with the name of that class.
C26_NotImplementedCheckGlobal ==
    /\ ImplementsCheckLine(validator_cls) /\ ~ImplementsCheckGlobal(validator_cls) =>
           /\ pc # "raised"
           /\ pc = "exhausted" =>
                  /\ errors = LineCheckFailures(validator_cls, lines)
                  /\ ~result.raised
    /\ \/ pc = "check_line" /\ ~ImplementsCheckLine(validator_cls)
       \/ pc = "check_global" /\ ~ImplementsCheckGlobal(validator_cls)
       => /\ result.raised
          /\ result.exception.type = "NotImplementedError"
          /\ result.exception.name = validator_cls

\* NoCheckGlobalMessageValidator iterated over the five lines of the test
C26_Witness ==
    /\ validator_cls = "NoCheckGlobalMessageValidator"
    /\ lines = TestLines
    /\ pc = "exhausted"
    /\ errors = << <<2, "Error on line 2">>, <<4, "Error on line 4">> >>

(***************************************************************************)
(* commit_message_cleanup_strip(lines) of utils.py.  The list it is given  *)
(* is changed in place by pop_matching; the cleaned list is a new one.     *)
(***************************************************************************)
\* an empty line, a line of white space, a line, a line with trailing white space, a
\* line of commentary
StripLines == {<<>>, <<" ">>, <<"a">>, <<"a", " ">>, <<"#", "c">>}

MaxStripLines == 4

StripInputs == UNION {[1..n -> StripLines] : n \in 0..MaxStripLines}

PyNone == <<"None">>

\* str.rstrip()
RECURSIVE rstrip(_)
rstrip(line) ==
    IF line # <<>> /\ IsSpace(line[Len(line)])
    THEN rstrip(SubSeq(line, 1, Len(line) - 1))
    ELSE line

\* the two lambdas pop_matching is called with
predicate(kind, x) ==
    IF kind = "empty" THEN x = <<>> ELSE StartsWith(x, <<"#">>)

\* list.pop(idx) for the idx 0 and -1 of an element that exists
pop(list, idx) ==
    IF idx = 0 THEN Tail(list) ELSE SubSeq(list, 1, Len(list) - 1)

\* pop_matching(predicate, idx): the list after the loop, or raised by lines[idx]
RECURSIVE pop_matching(_, _, _)
pop_matching(kind, idx, list) ==
    LET x == PyIndex(list, idx)
    IN  IF x = IndexError THEN [raised |-> TRUE, lines |-> list]
        ELSE IF predicate(kind, x) THEN pop_matching(kind, idx, pop(list, idx))
        ELSE [raised |-> FALSE, lines |-> list]

\* "for line in lines" from the k-th line on
RECURSIVE cleaned_from(_, _, _, _)
cleaned_from(list, k, prior_line, cleaned) ==
    IF k > Len(list) THEN cleaned
    ELSE LET line == rstrip(list[k])
         IN  cleaned_from(list, k + 1, line,
                          IF line # prior_line \/ prior_line # <<>>
                          THEN Append(cleaned, line)
                          ELSE cleaned)

\* commit_message_cleanup_strip is called with a list
InitCleanupStrip ==
    /\ lines \in StripInputs
    /\ pc = "leading"
    /\ result = <<>>
    /\ validator_cls = "None"
    /\ lineno = 0
    /\ errors = <<>>
    /\ matches = <<>>
    /\ message_context = "None"
    /\ contexts = <<>>
    /\ printed = <<>>
    /\ exit_code = -1

\* Discard empty leading lines
discard_leading ==
    /\ pc = "leading"
    /\ LET r == pop_matching("empty", 0, lines)
       IN  /\ lines' = r.lines
           /\ pc' = IF r.raised THEN "raised" ELSE "trailing"
    /\ UNCHANGED <<validator_cls, matches, lineno, message_context, contexts, errors, result,
                   printed, exit_code>>

\* Discard empty trailing lines
discard_trailing ==
    /\ pc = "trailing"
    /\ LET r == pop_matching("empty", -1, lines)
       IN  /\ lines' = r.lines
           /\ pc' = IF r.raised THEN "raised" ELSE "commentary"
    /\ UNCHANGED <<validator_cls, matches, lineno, message_context, contexts, errors, result,
                   printed, exit_code>>

\* Discard commentary
discard_commentary ==
    /\ pc = "commentary"
    /\ LET r == pop_matching("commentary", -1, lines)
       IN  /\ lines' = r.lines
           /\ pc' = IF r.raised THEN "raised" ELSE "trailing_again"
    /\ UNCHANGED <<validator_cls, matches, lineno, message_context, contexts, errors, result,
                   printed, exit_code>>

\* Discard empty trailing lines, again
discard_trailing_again ==
    /\ pc = "trailing_again"
    /\ LET r == pop_matching("empty", -1, lines)
       IN  /\ lines' = r.lines
           /\ pc' = IF r.raised THEN "raised" ELSE "cleaning"
    /\ UNCHANGED <<validator_cls, matches, lineno, message_context, contexts, errors, result,
                   printed, exit_code>>

\* Strip trailing whitespace and consolidate consecutive empty lines, and return
strip_and_consolidate ==
    /\ pc = "cleaning"
    /\ result' = cleaned_from(lines, 1, PyNone, <<>>)
    /\ pc' = "returned"
    /\ UNCHANGED <<validator_cls, lines, matches, lineno, message_context, contexts, errors,
                   printed, exit_code>>

NextCleanupStrip ==
    \/ discard_leading
    \/ discard_trailing
    \/ discard_commentary
    \/ discard_trailing_again
    \/ strip_and_consolidate

SpecCleanupStrip == InitCleanupStrip /\ [][NextCleanupStrip]_vars

\* C27, as stated: the list commit_message_cleanup_strip returns has no empty first
\* line and no empty last line, no line with trailing white space, and no two
\* consecutive empty lines.
C27_Cleaned ==
    pc = "returned" =>
        /\ result # <<>> => result[1] # <<>> /\ result[Len(result)] # <<>>
        /\ \A k \in 1..Len(result) :
               result[k] # <<>> => ~IsSpace(result[k][Len(result[k])])
        /\ \A k \in 1..(Len(result) - 1) : ~(result[k] = <<>> /\ result[k + 1] = <<>>)

\* C30, as stated: commit_message_cleanup_strip raises for no list it is given.
C30_NeverRaises == pc # "raised"

====
